---- MODULE Spec2Model ----
(***************************************************************************)
(* venvkit: the ecosystem map built by mapRender (mapRender.ts) from       *)
(* DoctorLite reports and run-log events, and the task clusters built by   *)
(* clusterRuns (taskCluster.ts) from the run log.                          *)
(*                                                                         *)
(* Conventions of the model                                                *)
(*  - a JavaScript string is a sequence of one-character strings, so that  *)
(*    toLowerCase, startsWith, split and template concatenation are        *)
(*    computed on the characters;                                          *)
(*  - an absent (undefined / null) string is the empty sequence where the  *)
(*    code treats both alike, and Undefined otherwise; an absent number is *)
(*    NoNumber;                                                            *)
(*  - the wall clock and the ranAt of a report are natural numbers; the at *)
(*    of a run-log event is an ISO-8601 string, because clusterRuns        *)
(*    compares these strings;                                              *)
(*  - sha256 is modelled as an injective function of its input (hash       *)
(*    collisions aside): the digest of s is s itself.                      *)
(***************************************************************************)
EXTENDS Integers, Sequences, FiniteSets, TLC

VARIABLES
    platform,   \* os.platform() of the process: "win32" or "linux"
    reports,    \* the reports argument of mapRender
    runs,       \* the runs argument of mapRender
    options,    \* the options argument of mapRender
    clock,      \* the wall clock read by nowIso()
    result,     \* the value returned by the latest mapRender call
    prev,       \* the value returned by the call before it
    taskClusters, \* the value returned by the clusterRuns(runs) call
    logFile,    \* the run-log file: its directory, its existence, its content
    appends,    \* the appendRunLog calls: where each one is
    readOut,    \* the value returned by the latest readRunLog call
    doctorFindings, \* the findings doctorLite has collected
    doctorResult    \* the value returned by scoreReport(findings)

vars == <<platform, reports, runs, options, clock, result, prev, taskClusters,
          logFile, appends, readOut, doctorFindings, doctorResult>>

logVars == <<logFile, appends, readOut>>

doctorVars == <<doctorFindings, doctorResult>>

----------------------------------------------------------------------------
(* Bounds of the model *)

MaxReports == 2
MaxRuns == 2
MaxClock == 2
MaxChildren == 3
MaxClusterRuns == 3
MaxOk == 19
MaxFail == 4
MaxBlastChildren == 4
MaxTasks == 4
MaxLogRuns == 4
MaxIssueReports == 3
MaxFileLines == 3
MaxAppends == 3
MaxFindings == 4

----------------------------------------------------------------------------
(* Absent values *)

Undefined == <<"undefined">>    \* an absent string that is later printed
Absent == "undefined"           \* an absent code or enumeration value
NoNumber == 0 - 1
NoResult == [none |-> TRUE]

----------------------------------------------------------------------------
(* Sequences, strings and insertion-ordered maps *)

Max(a, b) == IF a >= b THEN a ELSE b

SeqsUpTo(S, n) == UNION {[1..k -> S] : k \in 0..n}

\* Array.prototype.map
Map(s, F(_)) == [i \in DOMAIN s |-> F(s[i])]

\* Array.prototype.slice(0, n)
Slice0(s, n) == SubSeq(s, 1, IF n < Len(s) THEN n ELSE Len(s))

\* Array.prototype.sort with the comparator (a, b) => Key(a) - Key(b):
\* ascending by Key, stable.
SortAsc(s, Key(_)) ==
    LET rank(i) == 1 + Cardinality({j \in DOMAIN s :
                        \/ Key(s[j]) < Key(s[i])
                        \/ (Key(s[j]) = Key(s[i]) /\ j < i)})
    IN [p \in DOMAIN s |-> s[CHOOSE i \in DOMAIN s : rank(i) = p]]

\* Array.prototype.sort with the comparator (a, b) => Key(b) - Key(a):
\* descending by Key, stable.
SortDesc(s, Key(_)) == LET Neg(x) == 0 - Key(x) IN SortAsc(s, Neg)

\* A JavaScript Map (or plain object with string keys): a sequence of
\* [k, v] entries in insertion order, keys unique.
MapHas(m, k) == \E i \in DOMAIN m : m[i].k = k
MapGet(m, k, dflt) ==
    IF MapHas(m, k) THEN m[CHOOSE i \in DOMAIN m : m[i].k = k].v ELSE dflt
MapSet(m, k, v) ==
    IF MapHas(m, k)
    THEN [i \in DOMAIN m |-> IF m[i].k = k THEN [k |-> k, v |-> v] ELSE m[i]]
    ELSE Append(m, [k |-> k, v |-> v])

ToLowerChar(c) ==
    CASE c = "A" -> "a"
      [] c = "B" -> "b"
      [] c = "C" -> "c"
      [] c = "D" -> "d"
      [] c = "U" -> "u"
      [] c = "P" -> "p"
      [] OTHER -> c

\* String.prototype.toLowerCase
toLowerCase(s) == [i \in DOMAIN s |-> ToLowerChar(s[i])]

\* String.prototype.startsWith
startsWith(s, pre) == Len(pre) <= Len(s) /\ SubSeq(s, 1, Len(pre)) = pre

\* String(n) for the small numbers that occur in template strings
DigitChar(n) ==
    CASE n = 0 -> "0" [] n = 1 -> "1" [] n = 2 -> "2" [] n = 3 -> "3"
      [] n = 4 -> "4" [] n = 5 -> "5" [] n = 6 -> "6" [] n = 7 -> "7"
      [] n = 8 -> "8" [] n = 9 -> "9"
RECURSIVE NumStr(_)
NumStr(n) == IF n < 10 THEN <<DigitChar(n)>> ELSE NumStr(n \div 10) \o <<DigitChar(n % 10)>>

IsSep(c) == c = "/" \/ c = "\\"

\* s.split(/[\\/]+/).filter(Boolean): the maximal separator-free pieces
RECURSIVE SplitPath(_, _, _)
SplitPath(s, i, cur) ==
    IF i > Len(s) THEN (IF cur = <<>> THEN <<>> ELSE <<cur>>)
    ELSE IF IsSep(s[i])
         THEN (IF cur = <<>> THEN <<>> ELSE <<cur>>) \o SplitPath(s, i + 1, <<>>)
         ELSE SplitPath(s, i + 1, Append(cur, s[i]))

----------------------------------------------------------------------------
(* mapRender.ts: identities and small helpers *)

nowIso == clock

sha256Hex(input) == input

\* stableId with the id salted by the time of the call
stableIdAtTime(prefix, input) == <<prefix, ":">> \o sha256Hex(input) \o NumStr(clock)

stableId(prefix, input) == <<prefix, ":">> \o sha256Hex(input)

normPath(p) ==
    IF p = <<>> THEN <<>>
    ELSE IF platform = "win32" THEN toLowerCase(p) ELSE p

pickArch(facts) ==
    IF facts.bits = 64 THEN <<"x86_64">>
    ELSE IF facts.bits = 32 THEN <<"x86">>
    ELSE Undefined

statusFromReport(r) == IF r.status = Absent THEN "unknown" ELSE r.status

issuesFromFindings(findings) ==
    [i \in DOMAIN findings |->
        [code |-> findings[i].code, severity |-> findings[i].severity]]

guessEnvLabel(pythonPath) ==
    LET parts == SplitPath(pythonPath, 1, <<>>)
    IN IF Len(parts) > 0 THEN parts[Max(0, Len(parts) - 2) + 1] ELSE pythonPath

\* shouldIncludeReport with the score test "<=" in place of "<"
shouldIncludeReportAbove(r, opts) ==
    LET minScore == opts.filter.minScore
        under == opts.filter.pathsUnder
        codes == opts.filter.codes
        set == {r.findings[i].code : i \in DOMAIN r.findings}
    IN /\ ~(minScore # NoNumber
            /\ (IF r.score = NoNumber THEN 0 ELSE r.score) <= minScore)
       /\ ~(under # <<>> /\ ~startsWith(normPath(r.pythonPath), normPath(under)))
       /\ ~(Len(codes) > 0 /\ ~(\E i \in DOMAIN codes : codes[i] \in set))

shouldIncludeReport(r, opts) ==
    LET minScore == opts.filter.minScore
        under == opts.filter.pathsUnder
        codes == opts.filter.codes
        set == {r.findings[i].code : i \in DOMAIN r.findings}
    IN /\ ~(minScore # NoNumber
            /\ (IF r.score = NoNumber THEN 0 ELSE r.score) < minScore)
       /\ ~(under # <<>> /\ ~startsWith(normPath(r.pythonPath), normPath(under)))
       /\ ~(Len(codes) > 0 /\ ~(\E i \in DOMAIN codes : codes[i] \in set))

hintForIssue(code) ==
    CASE code = "SSL_BROKEN" -> "fix-openssl"
      [] code \in {"DLL_LOAD_FAIL", "ABI_MISMATCH"} -> "native-deps-mismatch"
      [] code \in {"USER_SITE_LEAK", "PYTHONPATH_INJECTED"} -> "path-leakage"
      [] code = "PIP_CHECK_FAIL" -> "dependency-conflicts"
      [] code = "PYVENV_CFG_INVALID" -> "stale-pyvenv-cfg"
      [] OTHER -> "investigate"

emojiForIssue(code) ==
    CASE code = "SSL_BROKEN" -> "lock"
      [] code = "CERT_STORE_FAIL" -> "id-card"
      [] code = "DLL_LOAD_FAIL" -> "puzzle"
      [] code = "ABI_MISMATCH" -> "gear"
      [] code = "USER_SITE_LEAK" -> "hole"
      [] code = "PYTHONPATH_INJECTED" -> "thread"
      [] code = "PIP_CHECK_FAIL" -> "firecracker"
      [] code = "PIP_MISSING" -> "package"
      [] code = "ARCH_MISMATCH" -> "crane"
      [] code = "PYVENV_CFG_INVALID" -> "bricks"
      [] OTHER -> "exclamation"

\* counts is the Map of the loop, filled report by report, finding by finding
RECURSIVE CountFindings(_, _, _, _)
CountFindings(rs, i, j, counts) ==
    IF i > Len(rs) THEN counts
    ELSE IF j > Len(rs[i].findings) THEN CountFindings(rs, i + 1, 1, counts)
    ELSE LET f == rs[i].findings[j]
         IN IF f.severity = "info" THEN CountFindings(rs, i, j + 1, counts)
            ELSE CountFindings(rs, i, j + 1,
                               MapSet(counts, f.code, MapGet(counts, f.code, 0) + 1))

\* countTopIssues without the cut to maxTop
countTopIssuesUncut(rs, maxTop) ==
    LET counts == CountFindings(rs, 1, 1, <<>>)
        Count(e) == e.v
        top == SortDesc(counts, Count)
    IN [i \in DOMAIN top |->
          [code |-> top[i].k, count |-> top[i].v, hint |-> hintForIssue(top[i].k)]]

countTopIssues(rs, maxTop) ==
    LET counts == CountFindings(rs, 1, 1, <<>>)
        Count(e) == e.v
        top == Slice0(SortDesc(counts, Count), maxTop)
    IN [i \in DOMAIN top |->
          [code |-> top[i].k, count |-> top[i].v, hint |-> hintForIssue(top[i].k)]]

dominantIssue(findings) ==
    LET IsNonInfo(f) == f.severity # "info"
        Penalty(f) == IF f.penalty = NoNumber THEN 0 ELSE f.penalty
        nonInfo == SelectSeq(findings, IsNonInfo)
    IN IF Len(nonInfo) = 0 THEN Absent ELSE SortDesc(nonInfo, Penalty)[1].code

\* deriveBaseKey that prefers the environment's own prefix
deriveBaseKeyPrefixFirst(r) ==
    LET f == r.facts
    IN IF f.prefix # <<>> THEN f.prefix
       ELSE IF f.base_prefix # <<>> THEN f.base_prefix
       ELSE r.pythonPath

deriveBaseKey(r) ==
    LET f == r.facts
        basePrefix == f.base_prefix
        prefix == f.prefix
    IN IF basePrefix # <<>> THEN basePrefix
       ELSE IF prefix # <<>> THEN prefix
       ELSE r.pythonPath

derivePyVersion(r) ==
    LET vi == r.facts.version_info
        m == r.facts.version
    IN IF Len(vi) >= 2 THEN NumStr(vi[1]) \o <<".">> \o NumStr(vi[2])
       ELSE IF Len(m) >= 3 THEN NumStr(m[1]) \o <<".">> \o NumStr(m[2])
       ELSE Undefined

nodeLabelForBase(baseKey, pyVersion, arch) ==
    <<"Base: ">> \o (IF pyVersion = Undefined THEN <<"py?">> ELSE pyVersion)
        \o <<" ">> \o (IF arch = Undefined THEN <<>> ELSE arch)
        \o <<"\n">> \o baseKey

summarizeCounts(nodes) ==
    LET Venvs(st) == Cardinality({i \in DOMAIN nodes :
                        nodes[i].type = "venv" /\ nodes[i].health.status = st})
    IN [healthy |-> Venvs("good"), warning |-> Venvs("warn"), broken |-> Venvs("bad")]

----------------------------------------------------------------------------
(* mapRender.ts: mapRender *)

\* options ?? defaults
ResolveOptions(o) ==
    [filter |-> o.filter,
     maxTopIssues |-> IF o.maxTopIssues = NoNumber THEN 10 ELSE o.maxTopIssues,
     taskMode |-> IF o.taskMode = Absent THEN "clustered" ELSE o.taskMode]

NoPython == [version |-> Undefined, arch |-> Undefined]

\* g is the state of the construction: nodes, edges, baseIdByKey, envIdByPyPath.
\* The value is the state after the call and the id returned.
getOrCreateBaseNode(g, baseKey, pyVersion, arch) ==
    LET keyNorm == normPath(baseKey)
        label == nodeLabelForBase(baseKey, pyVersion, arch)
    IN IF MapHas(g.baseIdByKey, keyNorm)
       THEN [g |-> g, id |-> MapGet(g.baseIdByKey, keyNorm, <<>>)]
       ELSE LET id == stableId("base", keyNorm)
            IN [g |-> [g EXCEPT
                    !.baseIdByKey = MapSet(@, keyNorm, id),
                    !.nodes = Append(@,
                        [id |-> id,
                         type |-> "base",
                         label |-> [i \in DOMAIN label |->
                                      IF label[i] = "\n" THEN " . " ELSE label[i]],
                         path |-> baseKey,
                         python |-> [version |-> pyVersion, arch |-> arch],
                         health |-> [status |-> "unknown", score |-> NoNumber,
                                     issues |-> <<>>],
                         features |-> <<>>,
                         lastSeenAt |-> nowIso])],
                id |-> id]

\* One iteration of "for (const r of included)": the env node, its base, the edge
EnvStep(g, r) ==
    LET pyPath == normPath(r.pythonPath)
        envId == stableId("env", pyPath)
        pyVersion == derivePyVersion(r)
        arch == pickArch(r.facts)
        dominant == dominantIssue(r.findings)
        Has(code) == \E i \in DOMAIN r.findings : r.findings[i].code = code
        envNode ==
            [id |-> envId,
             type |-> "venv",
             label |-> guessEnvLabel(r.pythonPath),
             path |-> r.pythonPath,
             python |-> [version |-> pyVersion, arch |-> arch],
             health |-> [status |-> statusFromReport(r), score |-> r.score,
                         issues |-> issuesFromFindings(r.findings)],
             features |-> <<IF Has("SSL_BROKEN") THEN <<"ssl:broken">> ELSE <<"ssl:ok">>,
                            IF Has("USER_SITE_LEAK") THEN <<"usersite:leak">>
                                                     ELSE <<"usersite:clean">>,
                            IF Has("PYTHONPATH_INJECTED") THEN <<"pythonpath:set">>
                                                          ELSE <<"pythonpath:clean">>>>,
             lastSeenAt |-> IF r.ranAt = NoNumber THEN nowIso ELSE r.ranAt]
        g1 == [g EXCEPT !.envIdByPyPath = MapSet(@, pyPath, envId),
                        !.nodes = Append(@, envNode)]
        b == getOrCreateBaseNode(g1, deriveBaseKey(r), pyVersion, arch)
    IN [b.g EXCEPT !.edges = Append(@,
            [id |-> stableId("e", b.id \o <<"->">> \o envId),
             from |-> b.id,
             to |-> envId,
             type |-> "USES_BASE",
             label |-> <<>>,
             weight |-> 1,
             dominantIssue |-> dominant])]

RECURSIVE EnvPass(_, _, _)
EnvPass(included, i, g) ==
    IF i > Len(included) THEN g
    ELSE EnvPass(included, i + 1, EnvStep(g, included[i]))

\* MedianScore as the rounded-down average
MeanScore(scores) ==
    IF Len(scores) > 0
    THEN (LET sum[i \in 0..Len(scores)] == IF i = 0 THEN 0 ELSE sum[i - 1] + scores[i]
          IN sum[Len(scores)] \div Len(scores))
    ELSE NoNumber

\* MedianScore with the index Math.floor((scores.length - 1) / 2)
LowerMedianScore(scores) ==
    IF Len(scores) > 0 THEN scores[((Len(scores) - 1) \div 2) + 1] ELSE NoNumber

\* scores[Math.floor(scores.length / 2)] of the ascending scores
MedianScore(scores) ==
    IF Len(scores) > 0 THEN scores[(Len(scores) \div 2) + 1] ELSE NoNumber

\* WorstStatus that looks for warn before bad
WorstStatusWarnFirst(childNodes) ==
    LET HasStatus(st) == \E i \in DOMAIN childNodes : childNodes[i].health.status = st
    IN IF HasStatus("warn") THEN "warn"
       ELSE IF HasStatus("bad") THEN "bad"
       ELSE IF HasStatus("good") THEN "good"
       ELSE "unknown"

\* const worst = childNodes.some(bad) ? "bad" : some(warn) ? "warn" : ...
WorstStatus(childNodes) ==
    LET HasStatus(st) == \E i \in DOMAIN childNodes : childNodes[i].health.status = st
    IN IF HasStatus("bad") THEN "bad"
       ELSE IF HasStatus("warn") THEN "warn"
       ELSE IF HasStatus("good") THEN "good"
       ELSE "unknown"

\* The health given to a base node by the aggregation loop
BaseHealth(g, base) ==
    LET IsChildEdge(e) == e.type = "USES_BASE" /\ e.from = base.id
        childEdges == SelectSeq(g.edges, IsChildEdge)
        IsChild(n) == \E i \in DOMAIN childEdges : childEdges[i].to = n.id
        childNodes == SelectSeq(g.nodes, IsChild)
        Score(n) == n.health.score
        IsNumber(x) == x # NoNumber
        Ident(x) == x
        scores == SortAsc(SelectSeq(Map(childNodes, Score), IsNumber), Ident)
    IN IF Len(childNodes) = 0 THEN base.health
       ELSE [status |-> WorstStatus(childNodes), score |-> MedianScore(scores), issues |-> <<>>]

RollupPass(g) ==
    [g EXCEPT !.nodes = [i \in DOMAIN g.nodes |->
        IF g.nodes[i].type = "base"
        THEN [g.nodes[i] EXCEPT !.health = BaseHealth(g, g.nodes[i])]
        ELSE g.nodes[i]]]

----------------------------------------------------------------------------
(* taskCluster.ts: signatures and clusters *)

\* the UTF-16 code unit of a character; the order of the default
\* Array.prototype.sort and of the relational operators on strings
CharOrd(c) ==
    CASE c = "\t" -> 9 [] c = "\n" -> 10 [] c = " " -> 32 [] c = "," -> 44
      [] c = "." -> 46 [] c = "/" -> 47
      [] c = "0" -> 48 [] c = "1" -> 49 [] c = "2" -> 50 [] c = "3" -> 51
      [] c = "4" -> 52 [] c = "5" -> 53 [] c = "6" -> 54 [] c = "7" -> 55
      [] c = "8" -> 56 [] c = "9" -> 57 [] c = "=" -> 61
      [] c = "A" -> 65 [] c = "B" -> 66 [] c = "C" -> 67 [] c = "D" -> 68
      [] c = "P" -> 80 [] c = "U" -> 85 [] c = "Z" -> 90
      [] c = "a" -> 97 [] c = "b" -> 98 [] c = "c" -> 99 [] c = "d" -> 100
      [] c = "p" -> 112 [] c = "s" -> 115 [] c = "t" -> 116 [] c = "u" -> 117
      [] c = "|" -> 124
      [] OTHER -> 126

\* s < t on strings: the first differing code unit decides, a proper prefix
\* is smaller
StrLess(s, t) ==
    \E k \in 1..(Len(s) + 1) :
        /\ \A j \in 1..(k - 1) : j <= Len(t) /\ s[j] = t[j]
        /\ k <= Len(t)
        /\ (k = Len(s) + 1 \/ CharOrd(s[k]) < CharOrd(t[k]))

\* Array.prototype.sort() on strings
SortStrings(l) ==
    LET rank(i) == 1 + Cardinality({j \in DOMAIN l :
                        StrLess(l[j], l[i]) \/ (l[j] = l[i] /\ j < i)})
    IN [p \in DOMAIN l |-> l[CHOOSE i \in DOMAIN l : rank(i) = p]]

\* Array.prototype.join
RECURSIVE Join(_, _)
Join(l, sep) ==
    IF Len(l) = 0 THEN <<>>
    ELSE IF Len(l) = 1 THEN l[1]
    ELSE l[1] \o <<sep>> \o Join(Tail(l), sep)

\* the first 16 hex digits of the SHA-256 digest (injective, collisions aside)
sha16(s) == s

IsSpace(c) == c \in {" ", "\t", "\n"}

\* cmd.trim().replace(/\s+/g, " ")
RECURSIVE CollapseSpaces(_, _)
CollapseSpaces(s, i) ==
    IF i > Len(s) THEN <<>>
    ELSE IF IsSpace(s[i])
         THEN IF i = 1 \/ IsSpace(s[i - 1]) \/ (\A j \in i..Len(s) : IsSpace(s[j]))
              THEN CollapseSpaces(s, i + 1)
              ELSE <<" ">> \o CollapseSpaces(s, i + 1)
         ELSE <<s[i]>> \o CollapseSpaces(s, i + 1)

normCmd(cmd) == toLowerCase(CollapseSpaces(cmd, 1))

\* task.requirements is absent
NoRequirements == [none |-> TRUE]

normReq(req) ==
    IF req = NoRequirements THEN <<>>
    ELSE LET Norm(l) == Join(SortStrings(Map(l, toLowerCase)), ",")
             pkgs == Norm(req.packages)
             feats == Norm(req.features)
             tags == Norm(req.tags)
             py == toLowerCase(req.python)
             x64 == IF req.requireX64 THEN <<"x", "6", "4">> ELSE <<>>
         IN <<"p", "y", "=">> \o py \o <<"|", "p", "k", "g", "s", "=">> \o pkgs
              \o <<"|", "f", "e", "a", "t", "=">> \o feats
              \o <<"|", "t", "a", "g", "s", "=">> \o tags \o <<"|">> \o x64

signatureForRun(run) ==
    LET command == normCmd(run.task.command)
        requirementsKey == normReq(run.task.requirements)
        base == run.task.name \o <<"|">> \o command \o <<"|">> \o requirementsKey
    IN [sigId |-> <<"task_">> \o sha16(base),
        name |-> run.task.name,
        command |-> command,
        requirementsKey |-> requirementsKey]

\* r.doctor?.dominantIssue ?? r.outcome.errorClass ?? "RUN_FAILED"
failureCodeOf(run) ==
    IF run.doctor.dominantIssue # Absent THEN run.doctor.dominantIssue
    ELSE IF run.outcome.errorClass # Absent THEN run.outcome.errorClass
    ELSE "RUN_FAILED"

\* obj[k] = (obj[k] ?? 0) + 1
Bump(m, k) == MapSet(m, k, MapGet(m, k, 0) + 1)

\* a quotient ok / runs, kept exact
Rate(n, d) == [num |-> n, den |-> d]

NewCluster(sig, at) ==
    [sig |-> sig, runs |-> 0, ok |-> 0, fail |-> 0, successRate |-> Rate(0, 1),
     lastAt |-> at, failureCounts |-> <<>>, envCounts |-> <<>>,
     envFailCounts |-> <<>>, envOkCounts |-> <<>>, dominantFailure |-> Absent]

\* if (r.at > c.lastAt) c.lastAt = r.at
LatestAt(lastAt, at) == IF StrLess(lastAt, at) THEN at ELSE lastAt

\* the body of the loop over the runs, for the cluster of the run
FoldRun(c, run) ==
    LET py == run.selected.pythonPath
        c1 == [c EXCEPT !.runs = @ + 1,
                        !.ok = IF run.outcome.ok THEN @ + 1 ELSE @,
                        !.fail = IF run.outcome.ok THEN @ ELSE @ + 1,
                        !.lastAt = LatestAt(@, run.at),
                        !.envCounts = Bump(@, py)]
    IN IF run.outcome.ok
       THEN [c1 EXCEPT !.envOkCounts = Bump(@, py)]
       ELSE [c1 EXCEPT !.failureCounts = Bump(@, failureCodeOf(run)),
                       !.envFailCounts = Bump(@, py)]

\* map is a Map sigId -> cluster, in first-seen order
RECURSIVE FoldRuns(_, _, _)
FoldRuns(rs, i, map) ==
    IF i > Len(rs) THEN map
    ELSE LET sig == signatureForRun(rs[i])
             c == MapGet(map, sig.sigId, NewCluster(sig, rs[i].at))
         IN FoldRuns(rs, i + 1, MapSet(map, sig.sigId, FoldRun(c, rs[i])))

\* the last code of the histogram with the highest count
RECURSIVE LastBestFailure(_, _, _)
LastBestFailure(failureCounts, i, best) ==
    IF i > Len(failureCounts) THEN best
    ELSE LastBestFailure(failureCounts, i + 1,
            IF best = <<>> \/ failureCounts[i].v >= best[1].v
            THEN <<failureCounts[i]>> ELSE best)

\* for (const [code, count] of Object.entries(c.failureCounts))
\*     if (!best || count > best.count) best = { code, count }
RECURSIVE BestFailure(_, _, _)
BestFailure(failureCounts, i, best) ==
    IF i > Len(failureCounts) THEN best
    ELSE BestFailure(failureCounts, i + 1,
            IF best = <<>> \/ failureCounts[i].v > best[1].v
            THEN <<failureCounts[i]>> ELSE best)

\* the derived fields of a cluster
Derive(c) ==
    LET best == BestFailure(c.failureCounts, 1, <<>>)
    IN [c EXCEPT !.successRate = IF c.runs # 0 THEN Rate(c.ok, c.runs) ELSE Rate(0, 1),
                 !.dominantFailure = IF best # <<>> THEN best[1].k ELSE Absent]

\* the clusters in first-seen order, never sorted
clusterRunsUnsorted(rs) ==
    LET map == FoldRuns(rs, 1, <<>>)
    IN [i \in DOMAIN map |-> Derive(map[i].v)]

clusterRuns(rs) ==
    LET map == FoldRuns(rs, 1, <<>>)
        values == [i \in DOMAIN map |-> Derive(map[i].v)]
        Runs(c) == c.runs
    IN SortDesc(values, Runs)

\* Math.round(100 * c.successRate)
successPercent(c) ==
    (200 * c.successRate.num + c.successRate.den) \div (2 * c.successRate.den)

\* 0.2 and 0.95 taken inclusively
isFlakyInclusive(cluster) ==
    /\ cluster.ok # 0
    /\ cluster.fail # 0
    /\ 5 * cluster.successRate.num >= cluster.successRate.den
    /\ 20 * cluster.successRate.num <= 19 * cluster.successRate.den

\* successRate > 0.2 is 5 * ok > runs, successRate < 0.95 is 20 * ok < 19 * runs
isFlaky(cluster) ==
    IF cluster.ok = 0 \/ cluster.fail = 0 THEN FALSE
    ELSE /\ 5 * cluster.successRate.num > cluster.successRate.den
         /\ 20 * cluster.successRate.num < 19 * cluster.successRate.den

\* an environment with mixed results counts for both sides
isEnvDependentFlakyMixed(cluster) ==
    /\ Len(cluster.envCounts) >= 2
    /\ \E i \in DOMAIN cluster.envCounts :
          MapGet(cluster.envOkCounts, cluster.envCounts[i].k, 0) > 0
    /\ \E i \in DOMAIN cluster.envCounts :
          MapGet(cluster.envFailCounts, cluster.envCounts[i].k, 0) > 0

isEnvDependentFlaky(cluster) ==
    LET envs == [i \in DOMAIN cluster.envCounts |-> cluster.envCounts[i].k]
        ok(py) == MapGet(cluster.envOkCounts, py, 0)
        fail(py) == MapGet(cluster.envFailCounts, py, 0)
        hasSuccessEnv == \E i \in DOMAIN envs : ok(envs[i]) > 0 /\ fail(envs[i]) = 0
        hasFailEnv == \E i \in DOMAIN envs : fail(envs[i]) > 0 /\ ok(envs[i]) = 0
    IN IF Len(envs) < 2 THEN FALSE ELSE hasSuccessEnv /\ hasFailEnv

\* Object.entries(cluster.envFailCounts) mapped, sorted by failCount
\* descending, cut to limit
getFailingEnvs(cluster, limit) ==
    LET Entry(e) == [pythonPath |-> e.k, failCount |-> e.v,
                     totalCount |-> MapGet(cluster.envCounts, e.k, e.v)]
        FailCount(e) == e.failCount
    IN Slice0(SortDesc(Map(cluster.envFailCounts, Entry), FailCount), limit)

----------------------------------------------------------------------------
(* mapRender.ts: task nodes and edges from the run log *)

\* nodeIndex.has(id): nodeIndex holds every node pushed so far
nodeIndexHas(g, id) == \E i \in DOMAIN g.nodes : g.nodes[i].id = id

\* an env id that numbers the node in creation order when no report named
\* the path
envIdForOrdinal(g, envPy) ==
    MapGet(g.envIdByPyPath, envPy, stableId("env", NumStr(Len(g.nodes))))

\* envIdByPyPath.get(envPy) ?? stableId("env", envPy)
envIdFor(g, envPy) == MapGet(g.envIdByPyPath, envPy, stableId("env", envPy))

\* EnsureEnvNode that never creates the node
EnsureEnvNodeNever(g, envId, envPy, pyPath, status, score, at) == g

\* EnsureEnvNode that ignores the status the run recorded
EnsureEnvNodeUnknown(g, envId, envPy, pyPath, status, score, at) ==
    IF nodeIndexHas(g, envId) THEN g
    ELSE [g EXCEPT
            !.nodes = Append(@,
                [id |-> envId,
                 type |-> "venv",
                 label |-> guessEnvLabel(pyPath),
                 path |-> pyPath,
                 python |-> NoPython,
                 health |-> [status |-> "unknown", score |-> NoNumber, issues |-> <<>>],
                 features |-> <<>>,
                 lastSeenAt |-> at]),
            !.envIdByPyPath = MapSet(@, envPy, envId)]

\* "Ensure env node exists even if missing from reports"
EnsureEnvNode(g, envId, envPy, pyPath, status, score, at) ==
    IF nodeIndexHas(g, envId) THEN g
    ELSE [g EXCEPT
            !.nodes = Append(@,
                [id |-> envId,
                 type |-> "venv",
                 label |-> guessEnvLabel(pyPath),
                 path |-> pyPath,
                 python |-> NoPython,
                 health |-> [status |-> status, score |-> score, issues |-> <<>>],
                 features |-> <<>>,
                 lastSeenAt |-> at]),
            !.envIdByPyPath = MapSet(@, envPy, envId)]

\* One entry [pyPath, count] of c.envCounts: the env node if missing, the
\* ROUTES_TASK_TO edge, and the FAILED_RUN edge when that env saw a failure
ClusterEnvStep(g, c, taskId, pyPath, count) ==
    LET envPy == normPath(pyPath)
        envId == envIdFor(g, envPy)
        g1 == EnsureEnvNode(g, envId, envPy, pyPath, "unknown", NoNumber, c.lastAt)
        route == [id |-> stableId("e", taskId \o <<"->">> \o envId \o <<":route">>),
                  from |-> taskId,
                  to |-> envId,
                  type |-> "ROUTES_TASK_TO",
                  label |-> <<"x">> \o NumStr(count),
                  weight |-> count,
                  dominantIssue |-> Absent]
        failCount == MapGet(c.envFailCounts, pyPath, 0)
        dom == IF c.dominantFailure # Absent THEN c.dominantFailure ELSE "RUN_FAILED"
        failed == [id |-> stableId("e", taskId \o <<"->">> \o envId \o <<":fail">>),
                   from |-> taskId,
                   to |-> envId,
                   type |-> "FAILED_RUN",
                   label |-> <<emojiForIssue(dom), " ", dom, " x">> \o NumStr(failCount),
                   weight |-> failCount,
                   dominantIssue |-> dom]
    IN [g1 EXCEPT !.edges = IF failCount > 0 THEN @ \o <<route, failed>>
                            ELSE Append(@, route)]

RECURSIVE ClusterEnvs(_, _, _, _)
ClusterEnvs(g, c, taskId, i) ==
    IF i > Len(c.envCounts) THEN g
    ELSE ClusterEnvs(ClusterEnvStep(g, c, taskId, c.envCounts[i].k, c.envCounts[i].v),
                     c, taskId, i + 1)

\* One iteration of "for (const c of clusters)"
ClusterStep(g, c) ==
    LET taskId == <<"task:">> \o c.sig.sigId
        taskNode ==
            [id |-> taskId,
             type |-> "task",
             label |-> c.sig.name,
             path |-> <<>>,
             python |-> NoPython,
             health |-> [status |-> IF c.fail = 0 THEN "good"
                                    ELSE IF c.ok = 0 THEN "bad" ELSE "warn",
                         score |-> successPercent(c),
                         issues |-> IF c.dominantFailure # Absent
                                    THEN <<[code |-> c.dominantFailure,
                                            severity |-> IF c.fail > 0 THEN "warn"
                                                         ELSE "info"]>>
                                    ELSE <<>>],
             features |-> <<<<"runs:">> \o NumStr(c.runs),
                            <<"ok:">> \o NumStr(c.ok),
                            <<"fail:">> \o NumStr(c.fail),
                            IF isFlaky(c) THEN <<"flaky:true">> ELSE <<"flaky:false">>,
                            IF isEnvDependentFlaky(c) THEN <<"env-flaky:true">>
                                                      ELSE <<"env-flaky:false">>>>,
             lastSeenAt |-> c.lastAt]
    IN ClusterEnvs([g EXCEPT !.nodes = Append(@, taskNode)], c, taskId, 1)

RECURSIVE ClusterPass(_, _, _)
ClusterPass(g, clusters, i) ==
    IF i > Len(clusters) THEN g
    ELSE ClusterPass(ClusterStep(g, clusters[i]), clusters, i + 1)

\* One iteration of "for (const run of runs)" in "runs" mode
RunStep(g, run) ==
    LET taskKey == run.task.name \o <<"|">> \o run.task.command \o <<"|">>
                       \o run.at \o <<"|">> \o run.selected.pythonPath
        taskId == stableId("task", IF run.runId # <<>> THEN run.runId ELSE taskKey)
        taskNode ==
            [id |-> taskId,
             type |-> "task",
             label |-> run.task.name,
             path |-> run.cwd,
             python |-> NoPython,
             health |-> [status |-> IF run.outcome.ok THEN "good" ELSE "bad",
                         score |-> IF run.outcome.ok THEN 100 ELSE 40,
                         issues |-> IF run.outcome.ok THEN <<>>
                                    ELSE <<[code |-> IF run.outcome.errorClass # Absent
                                                     THEN run.outcome.errorClass
                                                     ELSE "RUN_FAILED",
                                            severity |-> "bad"]>>],
             features |-> <<IF /\ run.task.requirements # NoRequirements
                               /\ Len(run.task.requirements.packages) > 0
                            THEN <<"pkgs:">> \o Join(Slice0(run.task.requirements.packages, 3), ",")
                            ELSE <<"pkgs:none">>>>,
             lastSeenAt |-> run.at]
        g0 == [g EXCEPT !.nodes = Append(@, taskNode)]
        envPy == normPath(run.selected.pythonPath)
        envId == envIdFor(g0, envPy)
        g1 == EnsureEnvNode(g0, envId, envPy, run.selected.pythonPath,
                            IF run.selected.status # Absent THEN run.selected.status
                            ELSE "unknown",
                            run.selected.score, run.at)
        route == [id |-> stableId("e", taskId \o <<"->">> \o envId \o <<":route">>),
                  from |-> taskId,
                  to |-> envId,
                  type |-> "ROUTES_TASK_TO",
                  label |-> <<"routes">>,
                  weight |-> 1,
                  dominantIssue |-> Absent]
        dom == IF run.doctor.dominantIssue # Absent THEN run.doctor.dominantIssue
               ELSE IF run.outcome.errorClass # Absent THEN run.outcome.errorClass
               ELSE "RUN_FAILED"
        failed == [id |-> stableId("e", taskId \o <<"->">> \o envId \o <<":fail">>),
                   from |-> taskId,
                   to |-> envId,
                   type |-> "FAILED_RUN",
                   label |-> <<emojiForIssue(dom), " ", dom>>,
                   weight |-> 2,
                   dominantIssue |-> dom]
    IN [g1 EXCEPT !.edges = IF run.outcome.ok THEN Append(@, route)
                            ELSE @ \o <<route, failed>>]

RECURSIVE RunsPass(_, _, _)
RunsPass(g, rs, i) ==
    IF i > Len(rs) THEN g
    ELSE RunsPass(RunStep(g, rs[i]), rs, i + 1)

\* the clusters mapRender works with: [] unless clustered mode has runs
ClustersOf(rs, opts) ==
    IF opts.taskMode = "clustered" /\ Len(rs) > 0 THEN clusterRuns(rs) ELSE <<>>

\* task integration that ignores taskMode "none"
TaskPassAlways(g, rs, opts) ==
    IF Len(rs) > 0
    THEN IF opts.taskMode = "clustered"
         THEN ClusterPass(g, ClustersOf(rs, opts), 1)
         ELSE RunsPass(g, rs, 1)
    ELSE g

TaskPass(g, rs, opts) ==
    IF opts.taskMode # "none" /\ Len(rs) > 0
    THEN IF opts.taskMode = "clustered"
         THEN ClusterPass(g, ClustersOf(rs, opts), 1)
         ELSE RunsPass(g, rs, 1)
    ELSE g

----------------------------------------------------------------------------
(* mapRender.ts: aggregateInsights *)

\* An insight is [severity, rule, text, meta]: rule names the template of
\* the text and text holds the values the template interpolates.

\* (c.successRate * 100).toFixed(0)
toFixed0Percent(rate) == (200 * rate.num + rate.den) \div (2 * rate.den)

topIssueInsights(graph) ==
    LET top == graph.summary.topIssues
    IN IF Len(top) > 0
       THEN <<[severity |-> IF top[1].count >= 3 THEN "high" ELSE "medium",
               rule |-> "top-issue",
               text |-> [code |-> top[1].code, count |-> top[1].count,
                         hint |-> top[1].hint],
               meta |-> [code |-> top[1].code, count |-> top[1].count]]>>
       ELSE <<>>

\* the children of a base and the bad ones among them
ChildNodesOf(graph, base) ==
    LET IsChildEdge(e) == e.type = "USES_BASE" /\ e.from = base.id
        childrenEdges == SelectSeq(graph.edges, IsChildEdge)
        IsChild(n) == \E i \in DOMAIN childrenEdges : childrenEdges[i].to = n.id
    IN SelectSeq(graph.nodes, IsChild)

BadCountOf(childNodes) ==
    Cardinality({i \in DOMAIN childNodes : childNodes[i].health.status = "bad"})

\* the blast-radius test with Math.floor in place of Math.ceil
hasBlastRadiusFloor(childNodes) ==
    /\ Len(childNodes) >= 3
    /\ BadCountOf(childNodes) >= Len(childNodes) \div 2

\* childNodes.length >= 3 && badCount >= Math.ceil(childNodes.length / 2)
hasBlastRadius(childNodes) ==
    /\ Len(childNodes) >= 3
    /\ BadCountOf(childNodes) >= (Len(childNodes) + 1) \div 2

RECURSIVE blastRadiusInsights(_, _, _)
blastRadiusInsights(graph, baseNodes, i) ==
    IF i > Len(baseNodes) THEN <<>>
    ELSE LET base == baseNodes[i]
             childNodes == ChildNodesOf(graph, base)
             badCount == BadCountOf(childNodes)
         IN (IF hasBlastRadius(childNodes)
             THEN <<[severity |-> "high",
                     rule |-> "blast-radius",
                     text |-> [base |-> base.label, bad |-> badCount,
                               total |-> Len(childNodes)],
                     meta |-> [baseId |-> base.id, total |-> Len(childNodes),
                               bad |-> badCount]]>>
             ELSE <<>>)
            \o blastRadiusInsights(graph, baseNodes, i + 1)

hygieneInsights(rs) ==
    LET Has(r, code) == \E i \in DOMAIN r.findings : r.findings[i].code = code
        leakCount == Cardinality({i \in DOMAIN rs : Has(rs[i], "USER_SITE_LEAK")})
        pyPathCount == Cardinality({i \in DOMAIN rs : Has(rs[i], "PYTHONPATH_INJECTED")})
    IN IF leakCount >= 2 \/ pyPathCount >= 2
       THEN <<[severity |-> "high",
               rule |-> "hygiene",
               text |-> [leakCount |-> leakCount, pyPathCount |-> pyPathCount],
               meta |-> [leakCount |-> leakCount, pyPathCount |-> pyPathCount]]>>
       ELSE <<>>

entropyInsights(rs) ==
    LET uniqueIssues == {rs[i].findings[j].code :
                            <<i, j>> \in {<<a, b>> \in (DOMAIN rs) \X (1..8) :
                                /\ b \in DOMAIN rs[a].findings
                                /\ rs[a].findings[b].severity # "info"}}
    IN IF Len(rs) >= 5 /\ Cardinality(uniqueIssues) >= 8
       THEN <<[severity |-> "medium",
               rule |-> "entropy",
               text |-> [uniqueIssues |-> Cardinality(uniqueIssues), envs |-> Len(rs)],
               meta |-> [envs |-> Len(rs), uniqueIssues |-> Cardinality(uniqueIssues)]]>>
       ELSE <<>>

\* every flaky cluster, however many
flakyTasksUncut(clusters) == SelectSeq(clusters, isFlaky)

\* clusters.filter(isFlaky).slice(0, 3)
flakyTasksOf(clusters) == Slice0(SelectSeq(clusters, isFlaky), 3)

LabelsOf(failingEnvs) ==
    [i \in DOMAIN failingEnvs |-> guessEnvLabel(failingEnvs[i].pythonPath)]

flakyInsight(c) ==
    [severity |-> "high",
     rule |-> "flaky-task",
     text |-> [name |-> c.sig.name, success |-> toFixed0Percent(c.successRate),
               runs |-> c.runs,
               dominantFailure |-> IF c.dominantFailure # Absent
                                   THEN c.dominantFailure ELSE "unknown",
               failingEnvs |-> LabelsOf(getFailingEnvs(c, 2))],
     meta |-> [taskSig |-> c.sig.sigId, runs |-> c.runs,
               successRate |-> c.successRate,
               dominantFailure |-> c.dominantFailure]]

envFlakyInsight(c) ==
    [severity |-> "high",
     rule |-> "env-flake",
     text |-> [name |-> c.sig.name, failingEnvs |-> LabelsOf(getFailingEnvs(c, 2))],
     meta |-> [taskSig |-> c.sig.sigId,
               failingEnvs |-> [i \in DOMAIN getFailingEnvs(c, 2) |->
                                   getFailingEnvs(c, 2)[i].pythonPath]]]

\* clusters.filter(isEnvDependentFlaky).slice(0, 2), without those of
\* flakyTasks
envFlakyTasksOf(clusters, flakyTasks) ==
    LET envFlakyTasks == Slice0(SelectSeq(clusters, isEnvDependentFlaky), 2)
        NotReported(c) == ~\E i \in DOMAIN flakyTasks : flakyTasks[i] = c
    IN SelectSeq(envFlakyTasks, NotReported)

\* failByEnv: env id -> summed weight of its FAILED_RUN edges
RECURSIVE FailByEnv(_, _, _)
FailByEnv(edges, i, m) ==
    IF i > Len(edges) THEN m
    ELSE FailByEnv(edges, i + 1,
            IF edges[i].type = "FAILED_RUN"
            THEN MapSet(m, edges[i].to, MapGet(m, edges[i].to, 0) + edges[i].weight)
            ELSE m)

hotspotInsights(graph) ==
    LET Count(e) == e.v
        worstEnvs == Slice0(SortDesc(FailByEnv(graph.edges, 1, <<>>), Count), 2)
        Known(e) == e.v >= 3 /\ \E n \in DOMAIN graph.nodes : graph.nodes[n].id = e.k
        EnvOf(e) == graph.nodes[CHOOSE n \in DOMAIN graph.nodes :
                        /\ graph.nodes[n].id = e.k
                        /\ \A l \in DOMAIN graph.nodes :
                              graph.nodes[l].id = e.k => n <= l]
        Insight(e) == [severity |-> "high",
                       rule |-> "hotspot",
                       text |-> [env |-> EnvOf(e).label, failCount |-> e.v],
                       meta |-> [envId |-> e.k, failCount |-> e.v]]
    IN Map(SelectSeq(worstEnvs, Known), Insight)

\* failureCodeCounts: code -> count summed over the clusters
RECURSIVE AddCounts(_, _, _)
AddCounts(m, counts, i) ==
    IF i > Len(counts) THEN m
    ELSE AddCounts(MapSet(m, counts[i].k, MapGet(m, counts[i].k, 0) + counts[i].v),
                   counts, i + 1)

RECURSIVE FailureCodeCounts(_, _, _)
FailureCodeCounts(clusters, i, m) ==
    IF i > Len(clusters) THEN m
    ELSE FailureCodeCounts(clusters, i + 1, AddCounts(m, clusters[i].failureCounts, 1))

\* the contagion test with "more than half" in place of "at least half"
isContagionStrict(count, totalFailures) ==
    totalFailures > 0 /\ 2 * count > totalFailures

\* totalFailures > 0 && topFailureCode[1] / totalFailures >= 0.5
isContagion(count, totalFailures) ==
    totalFailures > 0 /\ 2 * count >= totalFailures

contagionInsights(graph, clusters) ==
    LET Count(e) == e.v
        sorted == SortDesc(FailureCodeCounts(clusters, 1, <<>>), Count)
        totalFailures == graph.summary.runsFailed
    IN IF /\ Len(clusters) > 0
          /\ Len(sorted) > 0
          /\ isContagion(sorted[1].v, totalFailures)
       THEN <<[severity |-> "high",
               rule |-> "contagion",
               text |-> [count |-> sorted[1].v, totalFailures |-> totalFailures,
                         code |-> sorted[1].k, hint |-> hintForIssue(sorted[1].k)],
               meta |-> [code |-> sorted[1].k, count |-> sorted[1].v,
                         totalFailures |-> totalFailures]]>>
       ELSE <<>>

lowInsight ==
    [severity |-> "low", rule |-> "none", text |-> [none |-> TRUE],
     meta |-> [none |-> TRUE]]

\* the closing step when the low-severity insight is pushed unconditionally
orLowInsightAlways(insights) == insights \o <<lowInsight>>

\* if (insights.length === 0) insights.push({ severity: "low", ... })
orLowInsight(insights) ==
    IF Len(insights) = 0 THEN <<lowInsight>> ELSE insights

aggregateInsights(graph, rs, clusters) ==
    LET IsBase(n) == n.type = "base"
        baseNodes == SelectSeq(graph.nodes, IsBase)
        flakyTasks == flakyTasksOf(clusters)
        insights ==
            topIssueInsights(graph)
            \o blastRadiusInsights(graph, baseNodes, 1)
            \o hygieneInsights(rs)
            \o entropyInsights(rs)
            \o Map(flakyTasks, flakyInsight)
            \o Map(envFlakyTasksOf(clusters, flakyTasks), envFlakyInsight)
            \o hotspotInsights(graph)
            \o contagionInsights(graph, clusters)
    IN orLowInsight(insights)

CountType(nodes, t) == Cardinality({i \in DOMAIN nodes : nodes[i].type = t})

\* the graph object built from the final nodes and edges
GraphOf(nodes, edges, health, topIssues, runsPassed, runsFailed) ==
    [version |-> "1.0",
     generatedAt |-> nowIso,
     summary |->
        [envCount |-> CountType(nodes, "venv"),
         baseCount |-> CountType(nodes, "base"),
         taskCount |-> CountType(nodes, "task"),
         healthy |-> health.healthy,
         warning |-> health.warning,
         broken |-> health.broken,
         runsPassed |-> runsPassed,
         runsFailed |-> runsFailed,
         topIssues |-> topIssues],
     nodes |-> nodes,
     edges |-> edges]

\* return { graph, mermaid, insights }, the mermaid text left out
ResultOf(graph, included, clusters) ==
    [graph |-> graph, insights |-> aggregateInsights(graph, included, clusters)]

\* the summary and the insights, from the nodes and edges g
Finish(g, included, runlog, opts) ==
    LET counted == opts.taskMode # "none" /\ Len(runlog) > 0
    IN ResultOf(
          GraphOf(g.nodes, g.edges, summarizeCounts(g.nodes),
                  countTopIssues(included, opts.maxTopIssues),
                  IF counted
                  THEN Cardinality({i \in DOMAIN runlog : runlog[i].outcome.ok})
                  ELSE 0,
                  IF counted
                  THEN Cardinality({i \in DOMAIN runlog : ~runlog[i].outcome.ok})
                  ELSE 0),
          included, ClustersOf(runlog, opts))

\* the nodes and edges of the env, rollup and task passes
Build(included, runlog, opts) ==
    Finish(TaskPass(RollupPass(EnvPass(included, 1,
               [nodes |-> <<>>, edges |-> <<>>, baseIdByKey |-> <<>>,
                envIdByPyPath |-> <<>>])), runlog, opts),
           included, runlog, opts)

Included(rs, opts) ==
    LET Keep(r) == shouldIncludeReport(r, opts) IN SelectSeq(rs, Keep)

Resolved(rs, runlog, opts) == Build(Included(rs, opts), runlog, opts)

mapRender(rs, runlog, o) == Resolved(rs, runlog, ResolveOptions(o))

----------------------------------------------------------------------------
(* runLog.ts: the JSONL run log                                            *)
(* The file content is the sequence of its characters. An event is written *)
(* as  { version , runId , stderrSnippet }  where the version and the      *)
(* runId are single tokens and the snippet is a string whose line feeds    *)
(* and backslashes JSON.stringify escapes.                                 *)

LF == "\n"
BackSlash == "\\"

IsWhite(ch) == ch = " " \/ ch = LF

\* String.prototype.trimEnd
RECURSIVE trimEnd(_)
trimEnd(s) ==
    IF Len(s) > 0 /\ IsWhite(s[Len(s)]) THEN trimEnd(SubSeq(s, 1, Len(s) - 1)) ELSE s

RECURSIVE trimStart(_)
trimStart(s) == IF Len(s) > 0 /\ IsWhite(s[1]) THEN trimStart(Tail(s)) ELSE s

\* String.prototype.trim
trim(s) == trimStart(trimEnd(s))

\* String.prototype.split("\n"): cur is the piece being read
RECURSIVE SplitLines(_, _)
SplitLines(s, cur) ==
    IF Len(s) = 0 THEN <<cur>>
    ELSE IF s[1] = LF THEN <<cur>> \o SplitLines(Tail(s), <<>>)
    ELSE SplitLines(Tail(s), Append(cur, s[1]))

\* the escapes of a JSON string
RECURSIVE EscapeString(_)
EscapeString(s) ==
    IF Len(s) = 0 THEN <<>>
    ELSE (IF s[1] = LF THEN <<BackSlash, "n">>
          ELSE IF s[1] = BackSlash THEN <<BackSlash, BackSlash>>
          ELSE <<s[1]>>) \o EscapeString(Tail(s))

\* the escapes are well formed and no control character is left unescaped
RECURSIVE WellEscaped(_)
WellEscaped(s) ==
    IF Len(s) = 0 THEN TRUE
    ELSE IF s[1] = BackSlash
         THEN Len(s) >= 2 /\ s[2] \in {"n", BackSlash} /\ WellEscaped(SubSeq(s, 3, Len(s)))
    ELSE s[1] \notin {LF, "{", "}", ","} /\ WellEscaped(Tail(s))

RECURSIVE UnescapeString(_)
UnescapeString(s) ==
    IF Len(s) = 0 THEN <<>>
    ELSE IF s[1] = BackSlash
         THEN <<IF s[2] = "n" THEN LF ELSE BackSlash>> \o UnescapeString(SubSeq(s, 3, Len(s)))
    ELSE <<s[1]>> \o UnescapeString(Tail(s))

Event(version, runId, stderrSnippet) ==
    [version |-> version, runId |-> runId, stderrSnippet |-> stderrSnippet]

\* JSON.stringify(evt)
JSONstringify(evt) ==
    <<"{", evt.version, ",", evt.runId, ",">> \o EscapeString(evt.stderrSnippet) \o <<"}">>

\* JSON.parse(l): the value, or threw when l is not JSON. The JSON texts of
\* the model are the objects written by JSONstringify and the literal null.
JSONparse(l) ==
    LET t == trim(l)
    IN IF t = <<"null">> THEN [threw |-> FALSE, isObject |-> FALSE, obj |-> NoResult]
       ELSE IF /\ Len(t) >= 6
               /\ t[1] = "{" /\ t[3] = "," /\ t[5] = "," /\ t[Len(t)] = "}"
               /\ t[2] \notin {"{", "}", ",", LF, BackSlash, " "}
               /\ t[4] \notin {"{", "}", ",", LF, BackSlash, " "}
               /\ WellEscaped(SubSeq(t, 6, Len(t) - 1))
       THEN [threw |-> FALSE, isObject |-> TRUE,
             obj |-> Event(t[2], t[4], UnescapeString(SubSeq(t, 6, Len(t) - 1)))]
       ELSE [threw |-> TRUE, isObject |-> FALSE, obj |-> NoResult]

NoFile == [dir |-> FALSE, exists |-> FALSE, raw |-> <<>>]

\* the loop of readRunLog over the lines of the tail
RECURSIVE ParseLines(_, _)
ParseLines(tail, out) ==
    IF Len(tail) = 0 THEN out
    ELSE LET l == tail[1]
             parsed == JSONparse(l)
         IN IF trim(l) = <<>> THEN ParseLines(Tail(tail), out)
            ELSE IF ~parsed.threw /\ parsed.isObject /\ parsed.obj.version = "1.0"
                 THEN ParseLines(Tail(tail), Append(out, parsed.obj))
            ELSE ParseLines(Tail(tail), out)

\* lines.slice(Math.max(0, lines.length - maxLines))
TailOf(lines, maxLines) ==
    SubSeq(lines, Max(0, Len(lines) - maxLines) + 1, Len(lines))

readRunLog(file, opts) ==
    LET maxLines == IF opts.maxLines = NoNumber THEN 5000 ELSE opts.maxLines
    IN IF ~file.exists THEN <<>>
       ELSE ParseLines(TailOf(SplitLines(trimEnd(file.raw), <<>>), maxLines), <<>>)

\* a write at the offset the descriptor had when it was opened (no O_APPEND)
appendFileAtOpenOffset(raw, line, offset) == SubSeq(raw, 1, offset) \o line

\* fs.appendFile (flag "a"): the write lands at the end of the file, whatever
\* the file held when the descriptor was opened
appendFile(raw, line, offset) == raw \o line

Appenders == 1..MaxAppends

NotCalled == [pc |-> "idle", offset |-> 0, after |-> {}]

----------------------------------------------------------------------------
(* doctorLite.ts: the score and the status of a report *)

RECURSIVE SumPenalties(_)
SumPenalties(findings) ==
    IF Len(findings) = 0 THEN 0
    ELSE (IF findings[1].penalty = NoNumber THEN 0 ELSE findings[1].penalty)
         + SumPenalties(Tail(findings))

Min(a, b) == IF a <= b THEN a ELSE b

\* clampScoreForHardFails that knows the missing executable only
clampScoreOnlyMissing(score, findings) ==
    LET codes == {findings[i].code : i \in DOMAIN findings}
    IN IF "PYTHON_EXEC_MISSING" \in codes THEN 0 ELSE score

clampScoreForHardFails(score, findings) ==
    LET codes == {findings[i].code : i \in DOMAIN findings}
    IN IF "PYTHON_EXEC_MISSING" \in codes THEN 0
       ELSE IF "ARCH_MISMATCH" \in codes THEN Min(score, 15)
       ELSE IF "DLL_LOAD_FAIL" \in codes \/ "ABI_MISMATCH" \in codes THEN Min(score, 25)
       ELSE IF "SUBPROCESS_BROKEN" \in codes THEN Min(score, 25)
       ELSE score

computeStatus(score, findings) ==
    IF \E i \in DOMAIN findings : findings[i].severity = "bad" THEN "bad"
    ELSE IF score >= 85 THEN "good"
    ELSE IF score >= 60 THEN "warn"
    ELSE "bad"

scoreReport(findings) ==
    LET penalty == SumPenalties(findings)
        score == clampScoreForHardFails(Max(0, 100 - penalty), findings)
    IN [score |-> score, status |-> computeStatus(score, findings)]

NoDoctor == doctorFindings = <<>> /\ doctorResult = NoResult

----------------------------------------------------------------------------
(* Inputs: reports, run-log events and options *)

Str(a, b) == <<"/", a, "/", b>>

NoFacts == [version_info |-> <<>>, version |-> <<>>, bits |-> NoNumber,
            prefix |-> <<>>, base_prefix |-> <<>>]

Facts(basePrefix, prefix) ==
    [version_info |-> <<3, 11, 5>>, version |-> <<3, 11, 5>>, bits |-> 64,
     prefix |-> prefix, base_prefix |-> basePrefix]

Finding(code, severity, penalty) ==
    [code |-> code, severity |-> severity, penalty |-> penalty]

Report(pythonPath, ranAt, status, score, facts, findings) ==
    [pythonPath |-> pythonPath, ranAt |-> ranAt, status |-> status, score |-> score,
     facts |-> facts, findings |-> findings]

Run(runId, at, name, command, pythonPath, status, score, ok, errorClass, dominant) ==
    [runId |-> runId, at |-> at, cwd |-> <<"/", "w">>,
     task |-> [name |-> name, command |-> command, requirements |-> NoRequirements],
     selected |-> [pythonPath |-> pythonPath, status |-> status, score |-> score],
     outcome |-> [ok |-> ok, errorClass |-> errorClass],
     doctor |-> [dominantIssue |-> dominant]]

\* task.requirements
Requirements(packages, features, tags, python, requireX64) ==
    [packages |-> packages, features |-> features, tags |-> tags,
     python |-> python, requireX64 |-> requireX64]

RunWith(run, requirements) == [run EXCEPT !.task.requirements = requirements]

\* ISO-8601 instants, written with and without a fraction of a second
At1 == <<"1", "Z">>
At1h == <<"1", ".", "5", "Z">>
At2 == <<"2", "Z">>
At3 == <<"3", "Z">>

Filter(minScore, pathsUnder, codes) ==
    [minScore |-> minScore, pathsUnder |-> pathsUnder, codes |-> codes]

NoFilter == Filter(NoNumber, <<>>, <<>>)

Options(filter, taskMode) ==
    [filter |-> filter, maxTopIssues |-> NoNumber, taskMode |-> taskMode]

OptionsTop(filter, taskMode, maxTopIssues) ==
    [filter |-> filter, maxTopIssues |-> maxTopIssues, taskMode |-> taskMode]

Platforms == {"win32", "linux"}

\* Reports of the general specification: two spellings of one interpreter
\* path, bases given by base_prefix, by prefix and by the path itself
ReportPool ==
    { Report(Str("a", "p"), 1, "good", 90,
             Facts(<<"/", "u">>, <<"/", "a">>), <<>>),
      Report(Str("A", "p"), NoNumber, "bad", 30,
             Facts(<<"/", "U">>, <<"/", "A">>),
             <<Finding("SSL_BROKEN", "bad", 40), Finding("NOT_A_VENV", "info", 0)>>),
      Report(Str("b", "p"), 1, "warn", 50,
             Facts(<<>>, <<"/", "u">>),
             <<Finding("USER_SITE_LEAK", "warn", 10), Finding("SSL_BROKEN", "bad", 40)>>),
      Report(<<"/", "u">>, 2, Absent, NoNumber, NoFacts, <<>>) }

\* Runs of the general specification: a reported env, an env no report
\* names (in two spellings), a repeated runId and an empty one
RunPool ==
    { Run(<<"r1">>, At1, <<"t">>, <<"p">>, Str("a", "p"), "good", 90,
          TRUE, Absent, Absent),
      Run(<<"r1">>, At2, <<"t">>, <<"P", " ">>, Str("d", "p"), Absent, NoNumber,
          FALSE, Absent, Absent),
      Run(<<>>, At3, <<"s">>, <<"p">>, Str("D", "p"), "good", 80,
          FALSE, "SSL_BROKEN", "DLL_LOAD_FAIL") }

\* Runs of the clustering specification: one task on three interpreters
\* with every kind of failure code, two spellings of its command and of its
\* requirements, and two tasks whose name and command hold a "|"
ClusterRunPool ==
    { Run(<<"r1">>, At1, <<"t">>, <<"p">>, Str("a", "p"), "good", 90,
          TRUE, Absent, Absent),
      Run(<<"r2">>, At1h, <<"t">>, <<" ", "P", " ">>, Str("b", "p"), "good", 90,
          FALSE, "SSL_BROKEN", Absent),
      Run(<<"r3">>, At2, <<"t">>, <<"p">>, Str("a", "p"), "good", 90,
          FALSE, Absent, Absent),
      Run(<<"r4">>, At1, <<"t">>, <<"p">>, Str("b", "p"), "good", 90,
          FALSE, "SSL_BROKEN", "DLL_LOAD_FAIL"),
      Run(<<"r5">>, At2, <<"t">>, <<"p">>, Str("c", "p"), "good", 90,
          TRUE, Absent, Absent),
      Run(<<"r6">>, At1, <<"a", "|", "b">>, <<"c">>, Str("a", "p"), "good", 90,
          TRUE, Absent, Absent),
      Run(<<"r7">>, At1, <<"a">>, <<"b", "|", "c">>, Str("a", "p"), "good", 90,
          FALSE, "SSL_BROKEN", Absent),
      RunWith(Run(<<"r8">>, At1, <<"t">>, <<"p", " ", "a">>, Str("a", "p"), "good", 90,
                  TRUE, Absent, Absent),
              Requirements(<<<<"B">>, <<"a">>>>, <<>>, <<<<"c">>>>, <<>>, FALSE)),
      RunWith(Run(<<"r9">>, At1, <<"t">>, <<"p", " ", " ", "a">>, Str("a", "p"), "good", 90,
                  TRUE, Absent, Absent),
              Requirements(<<<<"a">>, <<"b">>>>, <<>>, <<<<"C">>>>, <<>>, FALSE)),
      RunWith(Run(<<"r10">>, At3, <<"t">>, <<"P", " ", "a">>, Str("a", "p"), "good", 90,
                  FALSE, Absent, "DLL_LOAD_FAIL"),
              Requirements(<<<<"a">>, <<"b">>>>, <<>>, <<<<"C">>>>, <<>>, FALSE)),
      RunWith(Run(<<"r11">>, At1, <<"t">>, <<"p">>, Str("a", "p"), "good", 90,
                  TRUE, Absent, Absent),
              Requirements(<<>>, <<>>, <<>>, <<>>, FALSE)) }

\* k passing runs and then m failing runs of one task on one interpreter
OkFailRuns(k, m) ==
    [i \in 1..(k + m) |->
        Run(<<"r">>, At1, <<"t">>, <<"p">>, Str("a", "p"), "good", 90,
            i <= k, Absent, Absent)]

\* Reports of the blast-radius specification: report i has its own
\* interpreter path; status and base are drawn from BlastPool
BlastPool ==
    { <<"bad", 30, "u">>, <<"good", 90, "u">>, <<"warn", 50, "u">>, <<"bad", 30, "v">> }

\* Run logs of the insight specification: task i runs by one of the
\* patterns, a sequence of <<interpreter, ok>>
TaskLetter(i) == CASE i = 1 -> "a" [] i = 2 -> "b" [] i = 3 -> "c" [] i = 4 -> "d" [] OTHER -> "s"

PatternPool ==
    { <<>>,
      <<<<"a", TRUE>>>>,
      <<<<"a", TRUE>>, <<"a", FALSE>>>>,
      <<<<"a", TRUE>>, <<"b", FALSE>>>>,
      <<<<"a", TRUE>>, <<"a", TRUE>>, <<"b", FALSE>>>>,
      <<<<"a", TRUE>>, <<"b", FALSE>>, <<"b", FALSE>>, <<"b", FALSE>>, <<"b", FALSE>>>>,
      <<<<"a", TRUE>>, <<"a", TRUE>>, <<"a", TRUE>>, <<"b", FALSE>>, <<"b", FALSE>>>> }

PatternRuns(i, pattern) ==
    [k \in DOMAIN pattern |->
        Run(<<"r", TaskLetter(i)>> \o NumStr(k), At1, <<TaskLetter(i)>>, <<"p">>,
            Str(pattern[k][1], "p"), "good", 90, pattern[k][2],
            IF pattern[k][2] THEN Absent ELSE "SSL_BROKEN", Absent)]

RECURSIVE ConcatRuns(_, _)
ConcatRuns(patterns, i) ==
    IF i > Len(patterns) THEN <<>>
    ELSE PatternRuns(i, patterns[i]) \o ConcatRuns(patterns, i + 1)

\* Runs of the run-log specification: two tasks on two interpreters (the
\* second in two spellings), failing with three codes
LogRunPool ==
    { Run(<<"r1">>, At1, <<"t">>, <<"p">>, Str("a", "p"), "good", 90,
          FALSE, "SSL_BROKEN", Absent),
      Run(<<"r2">>, At1, <<"t">>, <<"p">>, Str("d", "p"), "good", 90,
          FALSE, "SSL_BROKEN", "DLL_LOAD_FAIL"),
      Run(<<"r3">>, At2, <<"t">>, <<"p">>, Str("D", "p"), "good", 90,
          FALSE, Absent, Absent),
      Run(<<"r4">>, At2, <<"s">>, <<"p">>, Str("a", "p"), "good", 90,
          FALSE, "SSL_BROKEN", Absent),
      Run(<<"r5">>, At3, <<"t">>, <<"p">>, Str("a", "p"), "good", 90,
          TRUE, Absent, Absent) }

OptionPool ==
    { Options(f, m) : f \in {NoFilter, Filter(50, <<>>, <<>>)},
                      m \in {Absent, "runs", "none"} }

\* Reports of the rollup specification: report i has its own interpreter
\* path; status, score and base are drawn from HealthPool
HealthPool ==
    { <<"good", 90, "u">>, <<"warn", 50, "u">>, <<"bad", 30, "u">>,
      <<Absent, NoNumber, "u">>, <<"good", NoNumber, "u">>, <<"unknown", 70, "u">>,
      <<"bad", 90, "v">>, <<"good", 30, "v">>, <<"warn", 50, "v">> }

EnvLetter(i) == CASE i = 1 -> "a" [] i = 2 -> "b" [] i = 3 -> "c" [] i = 4 -> "d" [] OTHER -> "u"

RollupReport(i, h) ==
    Report(Str(EnvLetter(i), "p"), 1, h[1], h[2],
           Facts(<<"/", h[3]>>, <<"/", EnvLetter(i)>>), <<>>)

\* Reports and filters of the filter specification
FilterReportPool ==
    { Report(Str("a", "p"), 1, "good", 90, NoFacts, <<>>),
      Report(Str("A", "p"), 1, "bad", 50, NoFacts,
             <<Finding("SSL_BROKEN", "bad", 40)>>),
      Report(<<"/", "a", "b">>, 1, "warn", 40, NoFacts,
             <<Finding("NOT_A_VENV", "info", 0)>>),
      Report(Str("b", "p"), 1, "warn", 60, NoFacts,
             <<Finding("USER_SITE_LEAK", "warn", 10)>>),
      Report(Str("b", "p"), 1, "bad", 0, NoFacts,
             <<Finding("USER_SITE_LEAK", "warn", 10), Finding("SSL_BROKEN", "bad", 40)>>) }

FilterPool ==
    { Filter(m, u, c) :
        m \in {NoNumber, 0, 50},
        u \in {<<>>, <<"/", "a">>, <<"/", "A", "/">>},
        c \in {<<>>, <<"SSL_BROKEN">>, <<"PIP_MISSING", "USER_SITE_LEAK">>} }

----------------------------------------------------------------------------
(* The state machine: a process that calls mapRender on its reports, run   *)
(* log and options again and again; every call reads a later wall-clock    *)
(* instant than the call before it.                                        *)

Start ==
    /\ clock = 0
    /\ result = NoResult
    /\ prev = NoResult
    /\ taskClusters = NoResult
    /\ logFile = NoFile
    /\ appends = [i \in Appenders |-> NotCalled]
    /\ readOut = NoResult
    /\ NoDoctor

Init ==
    /\ platform \in Platforms
    /\ reports \in SeqsUpTo(ReportPool, MaxReports)
    /\ runs \in SeqsUpTo(RunPool, MaxRuns)
    /\ options \in OptionPool
    /\ Start

InitRollup ==
    /\ platform = "linux"
    /\ \E k \in 0..MaxChildren : \E h \in [1..k -> HealthPool] :
          reports = [i \in 1..k |-> RollupReport(i, h[i])]
    /\ runs \in SeqsUpTo(RunPool, 1)
    /\ options = Options(NoFilter, Absent)
    /\ Start

InitFilter ==
    /\ platform \in Platforms
    /\ reports \in SeqsUpTo(FilterReportPool, MaxReports)
    /\ runs = <<>>
    /\ options \in {Options(f, Absent) : f \in FilterPool}
    /\ Start

\* const r = mapRender(reports, runs, options)
Render ==
    /\ clock < MaxClock
    /\ clock' = clock + 1
    /\ result' = mapRender(reports, runs, options)
    /\ prev' = result
    /\ UNCHANGED <<platform, reports, runs, options, taskClusters>>
    /\ UNCHANGED logVars
    /\ UNCHANGED doctorVars

Next == Render

Spec == Init /\ [][Next]_vars

SpecRollup == InitRollup /\ [][Next]_vars

SpecFilter == InitFilter /\ [][Next]_vars

\* up to MaxBlastChildren reports on two bases, no run log
InitBlast ==
    /\ platform = "linux"
    /\ \E k \in 0..MaxBlastChildren : \E h \in [1..k -> BlastPool] :
          reports = [i \in 1..k |-> RollupReport(i, h[i])]
    /\ runs = <<>>
    /\ options = Options(NoFilter, Absent)
    /\ Start

SpecBlast == InitBlast /\ [][Next]_vars

\* the run log of MaxTasks tasks, clustered by mapRender
InitInsights ==
    /\ platform = "linux"
    /\ reports = <<>>
    /\ \E patterns \in [1..MaxTasks -> PatternPool] : runs = ConcatRuns(patterns, 1)
    /\ options = Options(NoFilter, Absent)
    /\ Start

SpecInsights == InitInsights /\ [][Next]_vars

\* the orders in which the caller can pass the elements of s
Reorderings(s) ==
    {[i \in DOMAIN s |-> s[f[i]]] :
        f \in {h \in [DOMAIN s -> DOMAIN s] : \A i, j \in DOMAIN s : h[i] = h[j] => i = j}}

\* between two calls the caller reorders the reports, the runs, or both
Permute ==
    /\ result # NoResult
    /\ prev = NoResult
    /\ clock < MaxClock
    /\ reports' \in Reorderings(reports)
    /\ runs' \in Reorderings(runs)
    /\ <<reports', runs'>> # <<reports, runs>>
    /\ UNCHANGED <<platform, options, clock, result, prev, taskClusters>>
    /\ UNCHANGED logVars
    /\ UNCHANGED doctorVars

NextPermute == Render \/ Permute

SpecPermute == Init /\ [][NextPermute]_vars

\* Reports of the top-issue specification: repeated codes, info findings, a
\* report the score filter drops and one with eleven distinct codes
ManyCodes ==
    <<"PYTHON_EXEC_MISSING", "ARCH_MISMATCH", "DLL_LOAD_FAIL", "ABI_MISMATCH",
      "SUBPROCESS_BROKEN", "PIP_CHECK_FAIL", "PYVENV_CFG_INVALID",
      "PYTHONPATH_INJECTED", "CERT_STORE_FAIL", "PIP_MISSING", "SSL_BROKEN">>

IssueReportPool ==
    { Report(Str("a", "p"), 1, "good", 90, NoFacts,
             <<Finding("SSL_BROKEN", "bad", 40), Finding("NOT_A_VENV", "info", 0),
               Finding("SSL_BROKEN", "bad", 40)>>),
      Report(Str("b", "p"), 1, "bad", 30, NoFacts,
             <<Finding("USER_SITE_LEAK", "warn", 10), Finding("SSL_BROKEN", "bad", 40)>>),
      Report(Str("c", "p"), 1, "warn", 60, NoFacts,
             <<Finding("PIP_MISSING", "warn", 10), Finding("USER_SITE_LEAK", "warn", 10)>>),
      Report(Str("d", "p"), 1, "good", 90, NoFacts,
             <<Finding("NOT_A_VENV", "info", 0)>>),
      Report(Str("u", "p"), 1, "warn", 70, NoFacts,
             [i \in DOMAIN ManyCodes |-> Finding(ManyCodes[i], "warn", 1)]) }

InitIssues ==
    /\ platform = "linux"
    /\ reports \in SeqsUpTo(IssueReportPool, MaxIssueReports)
    /\ runs = <<>>
    /\ options \in {OptionsTop(f, Absent, m) : f \in {NoFilter, Filter(50, <<>>, <<>>)},
                                               m \in {NoNumber, 0, 1, 2}}
    /\ Start

SpecIssues == InitIssues /\ [][Next]_vars

\* a run log of at most MaxLogRuns events and no reports, in clustered and
\* in runs mode
InitLog ==
    /\ platform \in Platforms
    /\ reports = <<>>
    /\ runs \in SeqsUpTo(LogRunPool, MaxLogRuns)
    /\ options \in {Options(NoFilter, m) : m \in {Absent, "runs"}}
    /\ Start

SpecLog == InitLog /\ [][Next]_vars

\* const clusters = clusterRuns(runs)
Cluster ==
    /\ taskClusters = NoResult
    /\ taskClusters' = [clusters |-> clusterRuns(runs)]
    /\ UNCHANGED <<platform, reports, runs, options, clock, result, prev>>
    /\ UNCHANGED logVars
    /\ UNCHANGED doctorVars

NextCluster == Cluster

\* a run log of at most MaxClusterRuns events is clustered
InitCluster ==
    /\ platform = "linux"
    /\ reports = <<>>
    /\ runs \in SeqsUpTo(ClusterRunPool, MaxClusterRuns)
    /\ options = Options(NoFilter, Absent)
    /\ Start

SpecCluster == InitCluster /\ [][NextCluster]_vars

\* a run log of one task with k passing runs and then m failing runs
InitFlaky ==
    /\ platform = "linux"
    /\ reports = <<>>
    /\ \E k \in 0..MaxOk : \E m \in 0..MaxFail : runs = OkFailRuns(k, m)
    /\ options = Options(NoFilter, Absent)
    /\ Start

SpecFlaky == InitFlaky /\ [][NextCluster]_vars

----------------------------------------------------------------------------
(* The run log: a process that reads a log file, and tasks that append     *)
(* their events to one log file, each call running up to its next await    *)
(* while the others are in flight.                                         *)

\* no mapRender or clusterRuns call is under way
NoRender ==
    /\ platform = "linux"
    /\ reports = <<>>
    /\ runs = <<>>
    /\ options = Options(NoFilter, Absent)
    /\ clock = 0
    /\ result = NoResult
    /\ prev = NoResult
    /\ taskClusters = NoResult

renderVars == <<platform, reports, runs, options, clock, result, prev, taskClusters>>

\* Lines of a log file: events of version 1.0 (one with a line feed and a
\* backslash in its snippet), an event of another version, a line cut short,
\* blank lines and a JSON value that is no object
LinePool ==
    { JSONstringify(Event("1.0", "a", <<>>)),
      JSONstringify(Event("1.0", "b", <<"x", LF, BackSlash>>)),
      JSONstringify(Event("2.0", "c", <<>>)),
      <<"{", "1.0", ",", "d">>,
      <<" ">>,
      <<>>,
      <<"null">> }

RECURSIVE FileOf(_)
FileOf(lines) ==
    IF Len(lines) = 0 THEN <<>> ELSE lines[1] \o <<LF>> \o FileOf(Tail(lines))

MaxLinesPool == {NoNumber, 0, 1, 2, 3}

InitRead ==
    /\ NoRender
    /\ logFile \in {NoFile} \cup
          {[dir |-> TRUE, exists |-> TRUE, raw |-> FileOf(lines)] :
              lines \in SeqsUpTo(LinePool, MaxFileLines)}
    /\ appends = [i \in Appenders |-> NotCalled]
    /\ readOut = NoResult
    /\ NoDoctor

\* const events = await readRunLog(logPath, { maxLines })
ReadLog ==
    /\ \E m \in MaxLinesPool :
          readOut' = [maxLines |-> m, events |-> readRunLog(logFile, [maxLines |-> m])]
    /\ UNCHANGED <<logFile, appends>>
    /\ UNCHANGED renderVars
    /\ UNCHANGED doctorVars

NextRead == ReadLog

SpecRead == InitRead /\ [][NextRead]_vars

\* the snippets of the appended events: empty, with a line feed and a
\* backslash, a line feed alone
Snippets == <<<<>>, <<"x", LF, BackSlash>>, <<LF>>>>

\* the event the i-th appendRunLog call is given: every call has its own runId
EventOf(i) == Event("1.0", NumStr(i)[1], Snippets[((i - 1) % 3) + 1])

\* the log of an earlier session
EarlierEvent == Event("1.0", "z", <<"x">>)

InitAppend ==
    /\ NoRender
    /\ logFile \in {NoFile,
                    [dir |-> TRUE, exists |-> TRUE,
                     raw |-> JSONstringify(EarlierEvent) \o <<LF>>]}
    /\ appends = [i \in Appenders |-> NotCalled]
    /\ readOut = NoResult
    /\ NoDoctor

Done == {j \in Appenders : appends[j].pc = "done"}

\* appendRunLog(logPath, evt) is called: it runs up to "await fs.mkdir";
\* the calls that have already resolved were awaited before this one
CallAppend(i) ==
    /\ appends[i].pc = "idle"
    /\ appends' = [appends EXCEPT ![i] = [pc |-> "mkdir", offset |-> 0, after |-> Done]]
    /\ UNCHANGED <<logFile, readOut>>
    /\ UNCHANGED renderVars
    /\ UNCHANGED doctorVars

\* await fs.mkdir(path.dirname(logPath), { recursive: true })
Mkdir(i) ==
    /\ appends[i].pc = "mkdir"
    /\ logFile' = [logFile EXCEPT !.dir = TRUE]
    /\ appends' = [appends EXCEPT ![i].pc = "open"]
    /\ UNCHANGED readOut
    /\ UNCHANGED renderVars
    /\ UNCHANGED doctorVars

\* fs.appendFile opens the file for appending, creating it if missing
OpenAppend(i) ==
    /\ appends[i].pc = "open"
    /\ logFile.dir
    /\ logFile' = [logFile EXCEPT !.exists = TRUE]
    /\ appends' = [appends EXCEPT ![i].pc = "write", ![i].offset = Len(logFile.raw)]
    /\ UNCHANGED readOut
    /\ UNCHANGED renderVars
    /\ UNCHANGED doctorVars

\* fs.appendFile writes JSON.stringify(evt) + "\n" and the call resolves
WriteAppend(i) ==
    /\ appends[i].pc = "write"
    /\ logFile' = [logFile EXCEPT
                     !.raw = appendFile(@, JSONstringify(EventOf(i)) \o <<LF>>,
                                        appends[i].offset)]
    /\ appends' = [appends EXCEPT ![i].pc = "done"]
    /\ UNCHANGED readOut
    /\ UNCHANGED renderVars
    /\ UNCHANGED doctorVars

\* const events = await readRunLog(logPath)
ReadAll ==
    /\ readOut' = [maxLines |-> NoNumber,
                   events |-> readRunLog(logFile, [maxLines |-> NoNumber])]
    /\ readOut' # readOut
    /\ UNCHANGED <<logFile, appends>>
    /\ UNCHANGED renderVars
    /\ UNCHANGED doctorVars

NextAppend ==
    \/ \E i \in Appenders : CallAppend(i)
    \/ \E i \in Appenders : Mkdir(i)
    \/ \E i \in Appenders : OpenAppend(i)
    \/ \E i \in Appenders : WriteAppend(i)
    \/ ReadAll

SpecAppend == InitAppend /\ [][NextAppend]_vars

----------------------------------------------------------------------------
(* doctorLite: the findings of one probe are scored                        *)

\* the findings doctorLite can push, with their severities and penalties
FindingCatalogue ==
    <<Finding("PYTHON_EXEC_MISSING", "bad", 100),
      Finding("SUBPROCESS_BROKEN", "bad", 40),
      Finding("NOT_A_VENV", "info", 10),
      Finding("PYVENV_CFG_INVALID", "warn", 25),
      Finding("PYTHONPATH_INJECTED", "warn", 15),
      Finding("ARCH_MISMATCH", "bad", 80),
      Finding("USER_SITE_ENABLED", "warn", 10),
      Finding("USER_SITE_LEAK", "warn", 20),
      Finding("PIP_MISSING", "warn", 25),
      Finding("PIP_POINTS_TO_OTHER_PYTHON", "warn", 30),
      Finding("PIP_CHECK_FAIL", "warn", 25),
      Finding("SSL_BROKEN", "bad", 40),
      Finding("DLL_LOAD_FAIL", "bad", 55),
      Finding("ABI_MISMATCH", "bad", 55),
      Finding("IMPORT_FAIL", "bad", 35),
      Finding("IMPORT_FAIL", "warn", 20),
      Finding("CERT_STORE_FAIL", "warn", 25),
      Finding("MULTI_VERSION_ON_PATH", "warn", 20)>>

\* the findings with the catalogue numbers in S, in the order they are pushed
FindingsOf(S) ==
    [k \in 1..Cardinality(S) |->
        FindingCatalogue[CHOOSE n \in S : Cardinality({m \in S : m < n}) = k - 1]]

InitDoctor ==
    /\ NoRender
    /\ logFile = NoFile
    /\ appends = [i \in Appenders |-> NotCalled]
    /\ readOut = NoResult
    /\ \E S \in SUBSET DOMAIN FindingCatalogue :
          /\ Cardinality(S) <= MaxFindings
          /\ doctorFindings = FindingsOf(S)
    /\ doctorResult = NoResult

\* const { score, status } = scoreReport(findings)
Score ==
    /\ doctorResult = NoResult
    /\ doctorResult' = scoreReport(doctorFindings)
    /\ UNCHANGED doctorFindings
    /\ UNCHANGED renderVars
    /\ UNCHANGED logVars

NextDoctor == Score

SpecDoctor == InitDoctor /\ [][NextDoctor]_vars

----------------------------------------------------------------------------
(* Properties of the returned graph *)

Called == result # NoResult
CalledTwice == prev # NoResult /\ result # NoResult

Nodes == result.graph.nodes
Edges == result.graph.edges
Summary == result.graph.summary

IdsOf(s) == [i \in DOMAIN s |-> s[i].id]
TaskIdsOf(s) == LET IsTask(n) == n.type = "task" IN IdsOf(SelectSeq(s, IsTask))
CodesOf(s) == [i \in DOMAIN s |-> s[i].code]

\* the options in force, and the reports that pass the filter
Opts == ResolveOptions(options)
Surviving == {i \in DOMAIN reports : shouldIncludeReport(reports[i], Opts)}
Integrated == Opts.taskMode # "none" /\ Len(runs) > 0

EnvIdOf(path) == <<"env", ":">> \o normPath(path)

\* C1: for fixed reports, runs and options, two mapRender calls made at
\* different times return the same sequence of node ids, the same sequence
\* of edge ids, the same order of summary.topIssues and the same order of
\* task nodes.
C1_SameIdsAndOrder ==
    CalledTwice =>
        /\ IdsOf(prev.graph.nodes) = IdsOf(Nodes)
        /\ IdsOf(prev.graph.edges) = IdsOf(Edges)
        /\ CodesOf(prev.graph.summary.topIssues) = CodesOf(Summary.topIssues)
        /\ TaskIdsOf(prev.graph.nodes) = TaskIdsOf(Nodes)

C1_Witness ==
    /\ CalledTwice
    /\ prev.graph.generatedAt # result.graph.generatedAt
    /\ Opts.taskMode = "clustered"
    /\ Len(TaskIdsOf(Nodes)) >= 2
    /\ Len(Edges) >= 4
    /\ Len(Summary.topIssues) >= 2

\* C2: between two mapRender calls on identical inputs made at different
\* times, graph.generatedAt is the only field of the result that differs.
C2_OnlyGeneratedAtDiffers ==
    CalledTwice =>
        [prev EXCEPT !.graph.generatedAt = 0] = [result EXCEPT !.graph.generatedAt = 0]

\* C3: no two nodes of the returned graph share an id and no two edges share
\* an id, so the environment node of every surviving report has exactly one
\* USES_BASE edge.
C3_UniqueIds ==
    Called =>
        /\ \A i, j \in DOMAIN Nodes : Nodes[i].id = Nodes[j].id => i = j
        /\ \A i, j \in DOMAIN Edges : Edges[i].id = Edges[j].id => i = j
        /\ \A r \in Surviving :
              Cardinality({i \in DOMAIN Edges :
                  /\ Edges[i].type = "USES_BASE"
                  /\ Edges[i].to = EnvIdOf(reports[r].pythonPath)}) = 1

\* C4: every edge of the returned graph has its from and its to equal to the
\* id of some node of the graph.
C4_EdgesResolve ==
    Called =>
        \A i \in DOMAIN Edges :
            /\ \E n \in DOMAIN Nodes : Nodes[n].id = Edges[i].from
            /\ \E n \in DOMAIN Nodes : Nodes[n].id = Edges[i].to

\* a run whose interpreter path no surviving report names
Unreported(run) ==
    \A r \in Surviving :
        normPath(reports[r].pythonPath) # normPath(run.selected.pythonPath)

C4_Witness ==
    /\ Called
    /\ Opts.filter.minScore # NoNumber
    /\ Surviving # DOMAIN reports
    /\ \E k \in DOMAIN runs : \E i \in DOMAIN Edges :
          /\ Unreported(runs[k])
          /\ Edges[i].type = "FAILED_RUN"
          /\ Edges[i].to = EnvIdOf(runs[k].selected.pythonPath)

\* the id of the task node that stands for a run
TaskIdOfRun(run) ==
    IF Opts.taskMode = "clustered"
    THEN <<"task:">> \o signatureForRun(run).sigId
    ELSE <<"task", ":">> \o (IF run.runId # <<>> THEN run.runId
                            ELSE run.task.name \o <<"|">> \o run.task.command \o <<"|">>
                                 \o run.at \o <<"|">> \o run.selected.pythonPath)

\* the run's env has a venv node of the given status, and the run's task
\* node routes to it
HasEnvNodeAndRoute(run, status) ==
    /\ \E n \in DOMAIN Nodes :
          /\ Nodes[n].type = "venv"
          /\ Nodes[n].id = EnvIdOf(run.selected.pythonPath)
          /\ Nodes[n].health.status = status
    /\ \E i \in DOMAIN Edges :
          /\ Edges[i].type = "ROUTES_TASK_TO"
          /\ Edges[i].from = TaskIdOfRun(run)
          /\ Edges[i].to = EnvIdOf(run.selected.pythonPath)

FirstRunOn(path) ==
    runs[CHOOSE j \in DOMAIN runs :
            /\ normPath(runs[j].selected.pythonPath) = normPath(path)
            /\ \A l \in 1..(j - 1) :
                  normPath(runs[l].selected.pythonPath) # normPath(path)]

Children(b) ==
    {i \in DOMAIN Nodes : \E e \in DOMAIN Edges :
        /\ Edges[e].type = "USES_BASE"
        /\ Edges[e].from = Nodes[b].id
        /\ Edges[e].to = Nodes[i].id}

Scored(b) == {i \in Children(b) : Nodes[i].health.score # NoNumber}

Bases == {b \in DOMAIN Nodes : Nodes[b].type = "base"}

ChildWith(b, st) == \E i \in Children(b) : Nodes[i].health.status = st

\* C6: a base node's status is bad if any attached environment is bad,
\* otherwise warn if any is warn, otherwise good if any is good, otherwise
\* unknown.
C6_WorstCaseStatus ==
    Called =>
        \A b \in Bases :
            Nodes[b].health.status =
                IF ChildWith(b, "bad") THEN "bad"
                ELSE IF ChildWith(b, "warn") THEN "warn"
                ELSE IF ChildWith(b, "good") THEN "good"
                ELSE "unknown"

C6_Witness ==
    /\ Called
    /\ \E b \in Bases :
          /\ ChildWith(b, "good") /\ ChildWith(b, "warn") /\ ChildWith(b, "unknown")
          /\ Nodes[b].health.status = "warn"

Below(b, v) == Cardinality({i \in Scored(b) : Nodes[i].health.score < v})
Above(b, v) == Cardinality({i \in Scored(b) : Nodes[i].health.score > v})
ScoresOf(b) == {Nodes[i].health.score : i \in Scored(b)}

\* v is the element at (0-based) index k of the ascending-sorted scores
AtSortedIndex(b, k, v) ==
    /\ v \in ScoresOf(b)
    /\ Below(b, v) <= k
    /\ k < Cardinality(Scored(b)) - Above(b, v)

\* C7: a base node's score is the element at index floor(n/2) of the
\* ascending-sorted scores of its n scored children (50 for 90, 50 and 30),
\* and is absent when no child has a score.
C7_MedianIndex ==
    Called =>
        \A b \in Bases :
            LET n == Cardinality(Scored(b))
            IN /\ n = 0 => Nodes[b].health.score = NoNumber
               /\ n > 0 => AtSortedIndex(b, n \div 2, Nodes[b].health.score)
               /\ (n = 3 /\ ScoresOf(b) = {90, 50, 30}) => Nodes[b].health.score = 50

C7_Witness ==
    /\ Called
    /\ \E b \in Bases :
          /\ Cardinality(Scored(b)) = 3
          /\ ScoresOf(b) = {90, 50, 30}
          /\ Nodes[b].health.score = 50

\* C8 as stated: with an even number n >= 2 of scored children the score is
\* the lower median, the smaller of the two middle values.
C8_LowerMedian ==
    Called =>
        \A b \in Bases :
            LET n == Cardinality(Scored(b))
                v == Nodes[b].health.score
            IN (n >= 2 /\ n % 2 = 0) =>
                  /\ v \in ScoresOf(b)
                  /\ Below(b, v) <= (n \div 2) - 1
                  /\ Above(b, v) <= n \div 2

\* C8 amended: with an even number n >= 2 of scored children the score is
\* the upper median, the larger of the two middle values.
C8_UpperMedian ==
    Called =>
        \A b \in Bases :
            LET n == Cardinality(Scored(b))
                v == Nodes[b].health.score
            IN (n >= 2 /\ n % 2 = 0) =>
                  /\ v \in ScoresOf(b)
                  /\ Below(b, v) <= n \div 2
                  /\ Above(b, v) <= (n \div 2) - 1

C8_Witness ==
    /\ Called
    /\ \E b \in Bases :
          /\ Cardinality(Scored(b)) = 2
          /\ ScoresOf(b) = {30, 90}
          /\ Nodes[b].health.score = 90

\* the base key of a report: base_prefix, else prefix, else pythonPath
BaseKeyOf(r) ==
    IF r.facts.base_prefix # <<>> THEN r.facts.base_prefix
    ELSE IF r.facts.prefix # <<>> THEN r.facts.prefix
    ELSE r.pythonPath

UsesBase(b, envId) ==
    \E e \in DOMAIN Edges :
        /\ Edges[e].type = "USES_BASE"
        /\ Edges[e].from = Nodes[b].id
        /\ Edges[e].to = envId

\* C9: summary.baseCount is the number of distinct normalized base keys of
\* the surviving reports, and environments that resolve to the same key are
\* attached by USES_BASE to the same base node.
C9_BaseCount ==
    Called =>
        /\ Summary.baseCount =
              Cardinality({normPath(BaseKeyOf(reports[i])) : i \in Surviving})
        /\ \A i, j \in Surviving :
              normPath(BaseKeyOf(reports[i])) = normPath(BaseKeyOf(reports[j])) =>
                  \E b \in Bases :
                      /\ UsesBase(b, EnvIdOf(reports[i].pythonPath))
                      /\ UsesBase(b, EnvIdOf(reports[j].pythonPath))

C9_Witness ==
    /\ Called
    /\ Summary.baseCount = 1
    /\ \E i, j \in Surviving :
          /\ reports[i].facts.base_prefix # <<>>
          /\ reports[j].facts.base_prefix = <<>>
          /\ reports[j].facts.prefix # <<>>
          /\ reports[i].pythonPath # reports[j].pythonPath

\* the filter as C10 states it
Survives(r) ==
    LET f == options.filter
    IN /\ (f.minScore = NoNumber \/ r.score >= f.minScore)
       /\ (f.pathsUnder = <<>>
              \/ startsWith(normPath(r.pythonPath), normPath(f.pathsUnder)))
       /\ (Len(f.codes) = 0
              \/ \E i \in DOMAIN r.findings : \E c \in DOMAIN f.codes :
                    r.findings[i].code = f.codes[c])

\* C10: a report survives the filter iff its score is at least minScore (when
\* set), its normalized path starts with the normalized pathsUnder (when
\* set) and it has one of the codes (when codes is set and not empty); with
\* no runs the venv nodes are the surviving reports, in order, and
\* summary.envCount is their number.
C10_FilterAndEnvCount ==
    (Called /\ Len(runs) = 0) =>
        LET kept == SelectSeq(reports, Survives)
            IsVenv(n) == n.type = "venv"
            venvs == SelectSeq(Nodes, IsVenv)
        IN /\ Len(venvs) = Len(kept)
           /\ \A i \in DOMAIN kept :
                 /\ venvs[i].path = kept[i].pythonPath
                 /\ venvs[i].health.score = kept[i].score
           /\ Summary.envCount = Len(kept)

C10_Witness ==
    /\ Called
    /\ Len(runs) = 0
    /\ options.filter.minScore = 50
    /\ options.filter.pathsUnder # <<>>
    /\ Len(options.filter.codes) > 0
    /\ Len(reports) = 2
    /\ Summary.envCount = 1

----------------------------------------------------------------------------
(* Filtered reports and the run log *)

\* the reports the filter excludes whose path no surviving report shares
Excluded ==
    {i \in DOMAIN reports \ Surviving :
        \A r \in Surviving :
            normPath(reports[r].pythonPath) # normPath(reports[i].pythonPath)}

HasVenvNode(id) ==
    \E n \in DOMAIN Nodes : Nodes[n].type = "venv" /\ Nodes[n].id = id

RunOn(path) ==
    \E k \in DOMAIN runs : normPath(runs[k].selected.pythonPath) = normPath(path)

\* the normalized interpreter paths the run log adds to the reported ones
UnreportedPaths ==
    IF Integrated
    THEN {normPath(runs[k].selected.pythonPath) :
             k \in {j \in DOMAIN runs : Unreported(runs[j])}}
    ELSE {}

----------------------------------------------------------------------------
(* Properties of clusterRuns *)

Clustered == taskClusters # NoResult
Clusters == taskClusters.clusters

SigIdOf(run) == signatureForRun(run).sigId

\* the runs of the log that carry the signature of cluster c
RunsOf(c) == {i \in DOMAIN runs : SigIdOf(runs[i]) = c.sig.sigId}

RECURSIVE SumCounts(_)
SumCounts(m) == IF m = <<>> THEN 0 ELSE m[1].v + SumCounts(Tail(m))

\* the instant an ISO-8601 string denotes, in tenths of a second
TimeOf(at) ==
    10 * (CharOrd(at[1]) - 48) + (IF at[2] = "." THEN CharOrd(at[3]) - 48 ELSE 0)

\* one cluster per distinct signature id, with consistent counts
CountsConsistent ==
    /\ \A i, j \in DOMAIN Clusters :
          Clusters[i].sig.sigId = Clusters[j].sig.sigId => i = j
    /\ {Clusters[i].sig.sigId : i \in DOMAIN Clusters}
          = {SigIdOf(runs[i]) : i \in DOMAIN runs}
    /\ \A i \in DOMAIN Clusters :
          LET c == Clusters[i]
          IN /\ c.runs = c.ok + c.fail
             /\ c.runs = Cardinality(RunsOf(c))
             /\ c.ok = Cardinality({k \in RunsOf(c) : runs[k].outcome.ok})
             /\ \A e \in DOMAIN c.envCounts :
                   c.envCounts[e].v = MapGet(c.envOkCounts, c.envCounts[e].k, 0)
                                      + MapGet(c.envFailCounts, c.envCounts[e].k, 0)
             /\ SumCounts(c.envCounts) = c.runs
             /\ SumCounts(c.envOkCounts) = c.ok
             /\ SumCounts(c.envFailCounts) = c.fail
             /\ SumCounts(c.failureCounts) = c.fail
             /\ c.successRate.num * c.runs = c.ok * c.successRate.den

\* C12: clusterRuns returns exactly one cluster per distinct signature, and
\* in each cluster runs = ok + fail = the number of input runs with its
\* signature, envCounts[e] = envOkCounts[e] + envFailCounts[e] and the
\* envCounts sum to runs, the failureCounts sum to fail, successRate is
\* ok / runs, and lastAt is the latest timestamp of its runs.
C12_ClusterInvariants ==
    Clustered =>
        /\ CountsConsistent
        /\ \A i \in DOMAIN Clusters :
              LET c == Clusters[i]
              IN /\ \E k \in RunsOf(c) : c.lastAt = runs[k].at
                 /\ \A k \in RunsOf(c) : TimeOf(runs[k].at) <= TimeOf(c.lastAt)

\* the counts of C12 without its lastAt clause, and lastAt as the greatest
\* timestamp string
C12_CountsAndGreatestString ==
    Clustered =>
        /\ CountsConsistent
        /\ \A i \in DOMAIN Clusters :
              LET c == Clusters[i]
              IN /\ \E k \in RunsOf(c) : c.lastAt = runs[k].at
                 /\ \A k \in RunsOf(c) : ~StrLess(c.lastAt, runs[k].at)

\* the requirements of a run with every list lowercased and sorted
NormalizedRequirements(req) ==
    IF req = NoRequirements THEN req
    ELSE [packages |-> SortStrings(Map(req.packages, toLowerCase)),
          features |-> SortStrings(Map(req.features, toLowerCase)),
          tags |-> SortStrings(Map(req.tags, toLowerCase)),
          python |-> toLowerCase(req.python),
          requireX64 |-> req.requireX64]

SameTask(r1, r2) ==
    /\ r1.task.name = r2.task.name
    /\ normCmd(r1.task.command) = normCmd(r2.task.command)
    /\ NormalizedRequirements(r1.task.requirements)
          = NormalizedRequirements(r2.task.requirements)

HasBar(str) == \E i \in DOMAIN str : str[i] = "|"

\* C13: two runs receive the same TaskSignature id if and only if they have
\* the same task name, the same command after trimming, collapsing
\* whitespace and lowercasing, and the same requirements after lowercasing
\* and sorting each list.
C13_SameSignatureIff ==
    Clustered =>
        \A i, j \in DOMAIN runs :
            SigIdOf(runs[i]) = SigIdOf(runs[j]) <=> SameTask(runs[i], runs[j])

\* the equivalence of C13 for runs whose task name and command hold no "|"
C13_SameSignatureIffWithoutBar ==
    Clustered =>
        \A i, j \in DOMAIN runs :
            (\A k \in {i, j} : ~HasBar(runs[k].task.name) /\ ~HasBar(runs[k].task.command))
                => (SigIdOf(runs[i]) = SigIdOf(runs[j]) <=> SameTask(runs[i], runs[j]))

\* the position in the log of the first run of cluster c
FirstSeen(c) == CHOOSE k \in RunsOf(c) : \A l \in RunsOf(c) : k <= l

\* C14: clusterRuns returns the clusters in non-increasing order of run
\* count, and clusters with equal run counts in the order in which their
\* signature first occurs in the input.
C14_SortedByRunsStable ==
    Clustered =>
        \A i, j \in DOMAIN Clusters :
            i < j =>
                \/ Clusters[i].runs > Clusters[j].runs
                \/ /\ Clusters[i].runs = Clusters[j].runs
                   /\ FirstSeen(Clusters[i]) < FirstSeen(Clusters[j])

C14_Witness ==
    /\ Clustered
    /\ \E i, j \in DOMAIN Clusters :
          /\ i < j
          /\ Clusters[i].runs > Clusters[j].runs
          /\ FirstSeen(Clusters[i]) > FirstSeen(Clusters[j])

\* the code recorded for a failed run, in the words of the run log
RecordedCode(run) ==
    IF run.doctor.dominantIssue # Absent THEN run.doctor.dominantIssue
    ELSE IF run.outcome.errorClass # Absent THEN run.outcome.errorClass
    ELSE "RUN_FAILED"

\* the failed runs of cluster c that recorded the code
FailedWith(c, code) ==
    {k \in RunsOf(c) : ~runs[k].outcome.ok /\ RecordedCode(runs[k]) = code}

FailedRuns(c) == {k \in RunsOf(c) : ~runs[k].outcome.ok}

FirstOf(S) == CHOOSE k \in S : \A l \in S : k <= l

\* C15: a cluster's dominantFailure is defined iff the cluster has a failed
\* run, and is then the code with the highest count among its failed runs,
\* the first such code of the input on ties; the code of a failed run is
\* doctor.dominantIssue, else outcome.errorClass, else RUN_FAILED.
C15_DominantFailure ==
    Clustered =>
        \A i \in DOMAIN Clusters :
            LET c == Clusters[i]
                d == c.dominantFailure
            IN /\ (d # Absent) <=> (FailedRuns(c) # {})
               /\ d # Absent =>
                    /\ FailedWith(c, d) # {}
                    /\ \A k \in FailedRuns(c) :
                         LET e == RecordedCode(runs[k])
                         IN e # d =>
                              \/ Cardinality(FailedWith(c, e)) < Cardinality(FailedWith(c, d))
                              \/ /\ Cardinality(FailedWith(c, e)) = Cardinality(FailedWith(c, d))
                                 /\ FirstOf(FailedWith(c, d)) < FirstOf(FailedWith(c, e))

C15_Witness ==
    /\ Clustered
    /\ \E i \in DOMAIN Clusters :
          LET c == Clusters[i]
          IN /\ c.dominantFailure # Absent
             /\ \E k \in FailedRuns(c) :
                   /\ RecordedCode(runs[k]) # c.dominantFailure
                   /\ Cardinality(FailedWith(c, RecordedCode(runs[k])))
                        = Cardinality(FailedWith(c, c.dominantFailure))
             /\ \E k \in FailedRuns(c) : RecordedCode(runs[k]) = "RUN_FAILED"
    /\ \E i \in DOMAIN Clusters : Clusters[i].dominantFailure = Absent

----------------------------------------------------------------------------
(* Properties of isFlaky and isEnvDependentFlaky *)

\* the passing runs and the failing runs of the log
Passed == Cardinality({k \in DOMAIN runs : runs[k].outcome.ok})
Failed == Cardinality({k \in DOMAIN runs : ~runs[k].outcome.ok})

\* C16: isFlaky(c) is true iff c.ok > 0, c.fail > 0 and the success rate is
\* strictly greater than 0.20 and strictly less than 0.95; it is true at
\* 60% success and false for all-pass, all-fail, exactly 20% and exactly
\* 95% success.
C16_FlakyStrictlyBetween ==
    (Clustered /\ Len(Clusters) = 1) =>
        LET c == Clusters[1]
        IN /\ c.ok = Passed /\ c.fail = Failed
           /\ isFlaky(c) <=> /\ Passed > 0
                             /\ Failed > 0
                             /\ 100 * Passed > 20 * (Passed + Failed)
                             /\ 100 * Passed < 95 * (Passed + Failed)
           /\ (Passed = 3 /\ Failed = 2) => isFlaky(c)
           /\ (Passed = 0 \/ Failed = 0) => ~isFlaky(c)
           /\ (Passed = 1 /\ Failed = 4) => ~isFlaky(c)
           /\ (Passed = 19 /\ Failed = 1) => ~isFlaky(c)

C16_Witness ==
    /\ Clustered
    /\ Len(Clusters) = 1
    /\ Passed = 19
    /\ Failed = 1
    /\ ~isFlaky(Clusters[1])

\* the interpreters that ran the task of cluster c, and their outcomes
EnvsOf(c) == {runs[k].selected.pythonPath : k \in RunsOf(c)}
PassedOn(c, e) == {k \in RunsOf(c) : runs[k].selected.pythonPath = e /\ runs[k].outcome.ok}
FailedOn(c, e) == {k \in RunsOf(c) : runs[k].selected.pythonPath = e /\ ~runs[k].outcome.ok}

\* C17: isEnvDependentFlaky(c) is true iff at least two distinct
\* environments ran the task, some environment has a success and no
\* failure, and some other environment has a failure and no success;
\* environments with mixed results count toward neither side.
C17_EnvDependentFlaky ==
    Clustered =>
        \A i \in DOMAIN Clusters :
            LET c == Clusters[i]
            IN isEnvDependentFlaky(c) <=>
                  /\ Cardinality(EnvsOf(c)) >= 2
                  /\ \E e, f \in EnvsOf(c) :
                        /\ e # f
                        /\ PassedOn(c, e) # {} /\ FailedOn(c, e) = {}
                        /\ FailedOn(c, f) # {} /\ PassedOn(c, f) = {}

C17_Witness ==
    /\ Clustered
    /\ \E i \in DOMAIN Clusters :
          LET c == Clusters[i]
          IN /\ ~isEnvDependentFlaky(c)
             /\ \E e, f \in EnvsOf(c) :
                   /\ e # f
                   /\ PassedOn(c, e) # {} /\ FailedOn(c, e) # {}
                   /\ PassedOn(c, f) # {} /\ FailedOn(c, f) = {}

----------------------------------------------------------------------------
(* Properties of the insights *)

Insights == result.insights

InsightsOf(rule) == LET Is(x) == x.rule = rule IN SelectSeq(Insights, Is)

\* the nodes attached to base b by a USES_BASE edge, and the bad ones
KidsOf(b) ==
    {k \in DOMAIN Nodes :
        \E e \in DOMAIN Edges :
            /\ Edges[e].type = "USES_BASE"
            /\ Edges[e].from = b.id
            /\ Edges[e].to = Nodes[k].id}

BadKidsOf(b) == {k \in KidsOf(b) : Nodes[k].health.status = "bad"}

BlastInsightsOf(b) ==
    {i \in DOMAIN Insights :
        Insights[i].rule = "blast-radius" /\ Insights[i].meta.baseId = b.id}

\* C18: a high-severity blast-radius insight naming base B is emitted iff B
\* has n >= 3 environment children attached by USES_BASE and at least
\* ceil(n/2) of them have status bad; the insight reports that bad count
\* and n.
C18_BlastRadius ==
    Called =>
        \A k \in DOMAIN Nodes :
            Nodes[k].type = "base" =>
                LET b == Nodes[k]
                    n == Cardinality(KidsOf(b))
                    bad == Cardinality(BadKidsOf(b))
                IN /\ (BlastInsightsOf(b) # {}) <=> (n >= 3 /\ 2 * bad >= n)
                   /\ Cardinality(BlastInsightsOf(b)) <= 1
                   /\ \A i \in BlastInsightsOf(b) :
                         /\ Insights[i].severity = "high"
                         /\ Insights[i].text.base = b.label
                         /\ Insights[i].text.bad = bad /\ Insights[i].text.total = n
                         /\ Insights[i].meta.bad = bad /\ Insights[i].meta.total = n

C18_Witness ==
    /\ Called
    /\ \E k \in DOMAIN Nodes :
          /\ Nodes[k].type = "base"
          /\ Cardinality(KidsOf(Nodes[k])) = 4
          /\ Cardinality(BadKidsOf(Nodes[k])) = 2
          /\ BlastInsightsOf(Nodes[k]) # {}

\* the clusters mapRender hands to aggregateInsights, in cluster order
RenderedClusters == ClustersOf(runs, Opts)

SigsOf(cs) == [i \in DOMAIN cs |-> cs[i].sig.sigId]
TaskSigsOf(insights) == [i \in DOMAIN insights |-> insights[i].meta.taskSig]

FlakyClusters == SelectSeq(RenderedClusters, isFlaky)
ReportedFlaky == Slice0(FlakyClusters, 3)

\* p is the integer nearest to 100 * ok / n, the larger one on a tie
NearestPercent(p, ok, n) == 2 * n * p - n <= 200 * ok /\ 200 * ok < 2 * n * p + n

\* C19: the insights contain exactly one high-severity flaky-task insight
\* for each of the first three flaky clusters in cluster order (all of them
\* if fewer than three are flaky) and none for any other cluster; each
\* states the cluster's run count and its success rate as a percentage
\* rounded to the nearest integer.
C19_FlakyInsights ==
    Called =>
        /\ TaskSigsOf(InsightsOf("flaky-task")) = SigsOf(ReportedFlaky)
        /\ \A i \in DOMAIN ReportedFlaky :
              LET x == InsightsOf("flaky-task")[i]
                  c == ReportedFlaky[i]
              IN /\ x.severity = "high"
                 /\ x.text.runs = Cardinality(RunsOf(c))
                 /\ x.meta.runs = Cardinality(RunsOf(c))
                 /\ NearestPercent(x.text.success,
                        Cardinality({k \in RunsOf(c) : runs[k].outcome.ok}),
                        Cardinality(RunsOf(c)))

C19_Witness ==
    /\ Called
    /\ Len(FlakyClusters) = 4
    /\ Len(InsightsOf("flaky-task")) = 3
    /\ \E i \in DOMAIN InsightsOf("flaky-task") :
          InsightsOf("flaky-task")[i].text.success = 67

NotReportedFlaky(c) == ~\E i \in DOMAIN ReportedFlaky : ReportedFlaky[i] = c

\* C20: env-dependent-flake insights are emitted for the first two
\* clusters, in cluster order, among those that are env-dependent flaky and
\* were not already reported by the flaky-task rule; a cluster already
\* reported as flaky gets no env-dependent-flake insight.
C20_EnvFlakeInsights ==
    Called =>
        LET EnvFlakyUnreported(c) == isEnvDependentFlaky(c) /\ NotReportedFlaky(c)
        IN TaskSigsOf(InsightsOf("env-flake"))
              = SigsOf(Slice0(SelectSeq(RenderedClusters, EnvFlakyUnreported), 2))

\* the env-dependent-flake insights are those of the first two
\* env-dependent flaky clusters that the flaky-task rule did not report
C20_FirstTwoThenUnreported ==
    Called =>
        TaskSigsOf(InsightsOf("env-flake"))
           = SigsOf(SelectSeq(Slice0(SelectSeq(RenderedClusters, isEnvDependentFlaky), 2),
                              NotReportedFlaky))

\* the failed runs of the log that recorded the code
FailedWithCode(code) ==
    {k \in DOMAIN runs : ~runs[k].outcome.ok /\ RecordedCode(runs[k]) = code}

FailedInLog == {k \in DOMAIN runs : ~runs[k].outcome.ok}

\* the highest number of failed runs that share one code
TopCodeCount ==
    IF FailedInLog = {} THEN 0
    ELSE LET counts == {Cardinality(FailedWithCode(RecordedCode(runs[k]))) : k \in FailedInLog}
         IN CHOOSE n \in counts : \A m \in counts : m <= n

\* a high-severity contagion insight naming a most common failure code
HasContagion ==
    \E i \in DOMAIN Insights :
        /\ Insights[i].rule = "contagion"
        /\ Insights[i].severity = "high"
        /\ Cardinality(FailedWithCode(Insights[i].meta.code)) = TopCodeCount
        /\ Insights[i].text.code = Insights[i].meta.code

\* C21 (as stated): whenever runs are integrated (task mode runs or
\* clustered) and summary.runsFailed > 0, a high-severity contagion insight
\* naming the most common failure code is emitted iff that code accounts
\* for at least 50% of summary.runsFailed.
C21_ContagionAnyMode ==
    (Called /\ Integrated /\ Summary.runsFailed > 0) =>
        (HasContagion <=> 2 * TopCodeCount >= Summary.runsFailed)

\* C21 (amended): the contagion insight is emitted, once, iff the task
\* mode is clustered and the most common failure code accounts for at
\* least 50% of summary.runsFailed; in runs mode it is never emitted.
C21_ContagionClustered ==
    (Called /\ Integrated /\ Summary.runsFailed > 0) =>
        /\ Summary.runsFailed = Cardinality(FailedInLog)
        /\ HasContagion <=> /\ Opts.taskMode = "clustered"
                            /\ 2 * TopCodeCount >= Summary.runsFailed
        /\ Len(InsightsOf("contagion")) = (IF HasContagion THEN 1 ELSE 0)
        /\ \A i \in DOMAIN InsightsOf("contagion") :
              /\ InsightsOf("contagion")[i].text.count = TopCodeCount
              /\ InsightsOf("contagion")[i].text.totalFailures = Summary.runsFailed

C21_Witness ==
    /\ Called
    /\ Opts.taskMode = "clustered"
    /\ Summary.runsFailed = 4
    /\ TopCodeCount = 2
    /\ HasContagion

RuleNames ==
    {"top-issue", "blast-radius", "hygiene", "entropy", "flaky-task",
     "env-flake", "hotspot", "contagion"}

LowInsights == {i \in DOMAIN Insights : Insights[i].severity = "low"}

NoRuleFired == \A rule \in RuleNames : InsightsOf(rule) = <<>>

\* C22: the insight list is never empty: it holds exactly one low-severity
\* insight iff none of the eight preceding rules emitted anything, and no
\* low-severity insight otherwise.
C22_LowInsightIffNothingElse ==
    Called =>
        /\ Len(Insights) > 0
        /\ Cardinality(LowInsights) = (IF NoRuleFired THEN 1 ELSE 0)
        /\ NoRuleFired => Len(Insights) = 1
        /\ Summary.topIssues # <<>> => ~NoRuleFired

C22_Witness ==
    /\ Called
    /\ Len(reports) = 2
    /\ Len(runs) = 2
    /\ Opts.taskMode # "none"
    /\ Summary.runsFailed > 0
    /\ Cardinality(LowInsights) = 1

TopIssues == Summary.topIssues

\* the non-info findings of the surviving reports, as (report, finding)
NonInfoFindings ==
    {p \in Surviving \X (1..11) :
        /\ p[2] \in DOMAIN reports[p[1]].findings
        /\ reports[p[1]].findings[p[2]].severity # "info"}

CodeAt(p) == reports[p[1]].findings[p[2]].code

FindingsWith(code) == {p \in NonInfoFindings : CodeAt(p) = code}

Before(p, q) == p[1] < q[1] \/ (p[1] = q[1] /\ p[2] < q[2])

\* the first non-info finding of the code, in report and finding order
FirstFinding(code) ==
    CHOOSE p \in FindingsWith(code) : \A q \in FindingsWith(code) : p = q \/ Before(p, q)

\* code c is ranked before code d
RankedBefore(c, d) ==
    \/ Cardinality(FindingsWith(c)) > Cardinality(FindingsWith(d))
    \/ /\ Cardinality(FindingsWith(c)) = Cardinality(FindingsWith(d))
       /\ Before(FirstFinding(c), FirstFinding(d))

IssueCodes == {CodeAt(p) : p \in NonInfoFindings}

\* C23: summary.topIssues lists only non-info finding codes of surviving
\* reports, each once with count = the number of non-info findings of that
\* code, in non-increasing count order with ties in first-seen order, cut
\* to the first maxTopIssues (default 10) codes of that order.
C23_TopIssues ==
    Called =>
        /\ \A k \in DOMAIN TopIssues :
              /\ TopIssues[k].code \in IssueCodes
              /\ TopIssues[k].count = Cardinality(FindingsWith(TopIssues[k].code))
        /\ \A k, l \in DOMAIN TopIssues :
              k < l => RankedBefore(TopIssues[k].code, TopIssues[l].code)
        /\ \A c \in IssueCodes :
              (\A k \in DOMAIN TopIssues : TopIssues[k].code # c) =>
                  \A k \in DOMAIN TopIssues : RankedBefore(TopIssues[k].code, c)
        /\ Len(TopIssues) =
              (IF Cardinality(IssueCodes) < Opts.maxTopIssues
               THEN Cardinality(IssueCodes) ELSE Opts.maxTopIssues)
        /\ options.maxTopIssues = NoNumber => Opts.maxTopIssues = 10

\* the default cut drops the eleventh code; a tie is kept in first-seen order
C23_Witness ==
    /\ Called
    /\ options.maxTopIssues = NoNumber
    /\ Cardinality(IssueCodes) = 12
    /\ Len(TopIssues) = 10
    /\ Surviving # DOMAIN reports
    /\ TopIssues[1].count = 2
    /\ TopIssues[2].count = 1
    /\ TopIssues[3].count = 1

ClusteredMode == Called /\ Opts.taskMode = "clustered" /\ Len(runs) > 0

\* the runs of task node t on env node e, and the failed ones among them
RunsOfOn(t, e) ==
    {k \in DOMAIN runs : /\ TaskIdOfRun(runs[k]) = t
                         /\ EnvIdOf(runs[k].selected.pythonPath) = e}

FailedOfOn(t, e) == {k \in RunsOfOn(t, e) : ~runs[k].outcome.ok}

EdgesFromTo(type, t, e) ==
    {i \in DOMAIN Edges : Edges[i].type = type /\ Edges[i].from = t /\ Edges[i].to = e}

RECURSIVE SumWeights(_, _)
SumWeights(edges, type) ==
    IF edges = <<>> THEN 0
    ELSE (IF edges[1].type = type THEN edges[1].weight ELSE 0)
         + SumWeights(Tail(edges), type)

WeightSums ==
    /\ SumWeights(Edges, "ROUTES_TASK_TO") = Len(runs)
    /\ SumWeights(Edges, "FAILED_RUN") = Summary.runsFailed

\* C24: in clustered mode, for every cluster and every environment it ran
\* on there is exactly one ROUTES_TASK_TO edge task -> env, with weight =
\* the number of the cluster's runs on that env; a FAILED_RUN edge
\* task -> env exists iff at least one of those runs failed, with weight =
\* the number of failures; the ROUTES_TASK_TO weights sum to the number of
\* runs and the FAILED_RUN weights to summary.runsFailed.
C24_ClusterEdges ==
    ClusteredMode =>
        /\ \A k \in DOMAIN runs :
              LET t == TaskIdOfRun(runs[k])
                  e == EnvIdOf(runs[k].selected.pythonPath)
              IN /\ Cardinality(EdgesFromTo("ROUTES_TASK_TO", t, e)) = 1
                 /\ \A i \in EdgesFromTo("ROUTES_TASK_TO", t, e) :
                       Edges[i].weight = Cardinality(RunsOfOn(t, e))
                 /\ EdgesFromTo("FAILED_RUN", t, e) # {} <=> FailedOfOn(t, e) # {}
                 /\ \A i \in EdgesFromTo("FAILED_RUN", t, e) :
                       Edges[i].weight = Cardinality(FailedOfOn(t, e))
        /\ WeightSums

\* the runs of task node t that name the interpreter path as spelled
RunsOfAt(t, path) ==
    {k \in DOMAIN runs : /\ TaskIdOfRun(runs[k]) = t
                         /\ runs[k].selected.pythonPath = path}

\* What the code guarantees: one ROUTES_TASK_TO edge per cluster and
\* spelling of an interpreter path, so that the edges task -> env are as
\* many as the spellings of that env's path in the cluster's runs, their
\* weights adding up to the runs on the env; likewise for FAILED_RUN.
C24_EdgePerSpelling ==
    ClusteredMode =>
        /\ \A k \in DOMAIN runs :
              LET t == TaskIdOfRun(runs[k])
                  e == EnvIdOf(runs[k].selected.pythonPath)
                  spellings == {runs[j].selected.pythonPath : j \in RunsOfOn(t, e)}
                  failing == {runs[j].selected.pythonPath : j \in FailedOfOn(t, e)}
              IN /\ Cardinality(EdgesFromTo("ROUTES_TASK_TO", t, e)) = Cardinality(spellings)
                 /\ Cardinality(EdgesFromTo("FAILED_RUN", t, e)) = Cardinality(failing)
                 /\ \A path \in spellings :
                       \E i \in EdgesFromTo("ROUTES_TASK_TO", t, e) :
                           Edges[i].weight = Cardinality(RunsOfAt(t, path))
        /\ WeightSums

IdSet(s) == {s[i].id : i \in DOMAIN s}

\* C25: the set of node ids and the set of edge ids of the returned graph
\* do not change when the reports list or the runs list is permuted.
C25_IdSetsUnderPermutation ==
    CalledTwice =>
        /\ IdSet(prev.graph.nodes) = IdSet(Nodes)
        /\ IdSet(prev.graph.edges) = IdSet(Edges)

\* two calls on reordered inputs that return the nodes and the edges in a
\* different order, with task nodes and synthesized env nodes among them
C25_Witness ==
    /\ CalledTwice
    /\ IdsOf(prev.graph.nodes) # IdsOf(Nodes)
    /\ IdsOf(prev.graph.edges) # IdsOf(Edges)
    /\ Len(reports) = 2
    /\ Len(runs) = 2
    /\ Integrated
    /\ UnreportedPaths # {}

----------------------------------------------------------------------------
(* Properties of the run log *)

WasRead == readOut # NoResult

MaxLinesOf(m) == IF m = NoNumber THEN 5000 ELSE m

\* the events of version 1.0 that the lines of the file hold, in file order
EventsOfFile ==
    IF logFile.exists THEN ParseLines(SplitLines(logFile.raw, <<>>), <<>>) ELSE <<>>

LastOf(s, n) == SubSeq(s, Max(0, Len(s) - n) + 1, Len(s))

\* C26: readRunLog returns the last maxLines (default 5000) events of the
\* log in file order, skipping malformed lines, blank lines and lines whose
\* version is not 1.0; for a missing file it returns the empty list.
C26_LastEvents ==
    WasRead =>
        /\ readOut.events = LastOf(EventsOfFile, MaxLinesOf(readOut.maxLines))
        /\ ~logFile.exists => readOut.events = <<>>

\* What the code guarantees: the events of version 1.0 among the last
\* maxLines lines of the file (trailing blank lines aside), in file order:
\* a malformed, blank or foreign line among them takes the place of an event.
C26_EventsOfLastLines ==
    WasRead =>
        LET lines == SplitLines(trimEnd(logFile.raw), <<>>)
            m == MaxLinesOf(readOut.maxLines)
        IN /\ logFile.exists =>
                readOut.events = ParseLines(LastOf(lines, m), <<>>)
           /\ ~logFile.exists => readOut.events = <<>>
           /\ Len(readOut.events) <= m
           /\ \E k \in 0..Len(EventsOfFile) :
                 readOut.events = LastOf(EventsOfFile, k)

\* what readRunLog(logPath) would return now
LogNow == readRunLog(logFile, [maxLines |-> NoNumber])

PlacesOf(evt) == {k \in DOMAIN LogNow : LogNow[k] = evt}

PlaceOf(i) == CHOOSE k \in PlacesOf(EventOf(i)) : TRUE

IsPrefix(s, t) == Len(s) <= Len(t) /\ SubSeq(t, 1, Len(s)) = s

----------------------------------------------------------------------------
(* Properties of the doctorLite score *)

WasScored == doctorResult # NoResult

HasFinding(code) == \E i \in DOMAIN doctorFindings : doctorFindings[i].code = code

PenaltySum == SumPenalties(doctorFindings)

\* the ceilings the hard failures put on the score
Ceilings ==
    {100}
    \cup (IF HasFinding("PYTHON_EXEC_MISSING") THEN {0} ELSE {})
    \cup (IF HasFinding("ARCH_MISMATCH") THEN {15} ELSE {})
    \cup (IF \/ HasFinding("DLL_LOAD_FAIL")
             \/ HasFinding("ABI_MISMATCH")
             \/ HasFinding("SUBPROCESS_BROKEN") THEN {25} ELSE {})

LowestCeiling == CHOOSE c \in Ceilings : \A d \in Ceilings : c <= d

\* C28: the score is max(0, 100 - the sum of the finding penalties), then
\* forced to 0 with PYTHON_EXEC_MISSING, capped at 15 with ARCH_MISMATCH and
\* at 25 with DLL_LOAD_FAIL, ABI_MISMATCH or SUBPROCESS_BROKEN, so that
\* 0 <= score <= 100; the status is bad if any finding has severity bad,
\* otherwise good if score >= 85, warn if score >= 60 and bad otherwise,
\* never unknown.
C28_ScoreAndStatus ==
    WasScored =>
        LET uncapped == IF PenaltySum >= 100 THEN 0 ELSE 100 - PenaltySum
            score == doctorResult.score
            anyBad == \E i \in DOMAIN doctorFindings : doctorFindings[i].severity = "bad"
        IN /\ score = Min(uncapped, LowestCeiling)
           /\ 0 <= score /\ score <= 100
           /\ doctorResult.status =
                 (IF anyBad THEN "bad"
                  ELSE IF score >= 85 THEN "good"
                  ELSE IF score >= 60 THEN "warn"
                  ELSE "bad")
           /\ doctorResult.status # "unknown"

\* a subprocess failure next to cheap findings: 100 - 40 - 10 - 10 = 40 is
\* capped at 25
C28_Witness ==
    /\ WasScored
    /\ HasFinding("SUBPROCESS_BROKEN")
    /\ ~HasFinding("ARCH_MISMATCH")
    /\ PenaltySum = 60
    /\ doctorResult.score = 25
    /\ doctorResult.status = "bad"

----------------------------------------------------------------------------
(* Properties of the failure hotspots and of the FAILED_RUN labels *)

\* the failed runs of the log that selected the env with the given node id
FailedRunsOn(e) ==
    {k \in DOMAIN runs : /\ ~runs[k].outcome.ok
                         /\ EnvIdOf(runs[k].selected.pythonPath) = e}

EnvIdsOfLog == {EnvIdOf(runs[k].selected.pythonPath) : k \in DOMAIN runs}

\* fewer than two envs have more failed runs than e
AmongTwoWorst(e) ==
    Cardinality({d \in EnvIdsOfLog :
        Cardinality(FailedRunsOn(d)) > Cardinality(FailedRunsOn(e))}) < 2

\* the hotspot insights state `times` times the failed runs of their env,
\* which are at least `least`
HotspotsState(times, least) ==
    \A i \in DOMAIN InsightsOf("hotspot") :
        LET h == InsightsOf("hotspot")[i]
            n == Cardinality(FailedRunsOn(h.meta.envId))
        IN /\ h.severity = "high"
           /\ n >= least
           /\ AmongTwoWorst(h.meta.envId)
           /\ h.meta.failCount = times * n
           /\ h.text.failCount = times * n

\* C29: in runs and in clustered task mode, a failure-hotspot insight is
\* emitted for an environment only if at least 3 failed runs selected it
\* and it is one of the two environments with the most failed runs, and the
\* number of failing runs it states is the number of failed runs on it.
C29_Hotspots ==
    (Called /\ Integrated) => HotspotsState(1, 3)

\* What the code guarantees: the claim in clustered mode; in runs mode
\* every failed run weighs 2, so that two failed runs make a hotspot and
\* the insight states twice the number of failed runs.
C29_HotspotsByWeight ==
    (Called /\ Integrated) =>
        IF Opts.taskMode = "clustered" THEN HotspotsState(1, 3) ELSE HotspotsState(2, 2)

FailedEdges == {i \in DOMAIN Edges : Edges[i].type = "FAILED_RUN"}

\* the failed runs of the task node t
FailedOf(t) == {k \in DOMAIN runs : ~runs[k].outcome.ok /\ TaskIdOfRun(runs[k]) = t}

\* code is recorded by the most runs of F, the first such code of F on ties
DominantAmong(code, F) ==
    LET With(c) == {k \in F : RecordedCode(runs[k]) = c}
    IN /\ With(code) # {}
       /\ \A k \in F :
             LET other == RecordedCode(runs[k])
             IN \/ Cardinality(With(other)) < Cardinality(With(code))
                \/ /\ Cardinality(With(other)) = Cardinality(With(code))
                   /\ FirstOf(With(code)) <= FirstOf(With(other))

\* C30: every FAILED_RUN edge from task T to environment E is labelled with
\* the dominant failure code of the failed runs of T on E, a code observed
\* on a failed run of that pair; a run's code is doctor.dominantIssue when
\* supplied and outcome.errorClass otherwise.
C30_LabelOfThePair ==
    (Called /\ Integrated) =>
        \A i \in FailedEdges :
            LET e == Edges[i]
                F == FailedOfOn(e.from, e.to)
            IN /\ e.dominantIssue \in {RecordedCode(runs[k]) : k \in F}
               /\ \/ Opts.taskMode = "runs"
                  \/ DominantAmong(e.dominantIssue, F)

\* What the code guarantees: in clustered mode the label is the dominant
\* failure code of all the failed runs of T, on whatever environment; in
\* runs mode it is the code of a failed run of T on E.
C30_LabelOfTheCluster ==
    (Called /\ Integrated) =>
        \A i \in FailedEdges :
            LET e == Edges[i]
            IN /\ FailedOfOn(e.from, e.to) # {}
               /\ IF Opts.taskMode = "clustered"
                  THEN DominantAmong(e.dominantIssue, FailedOf(e.from))
                  ELSE e.dominantIssue \in
                          {RecordedCode(runs[k]) : k \in FailedOfOn(e.from, e.to)}

=============================================================================
